---------------------------- MODULE Spec2Model ----------------------------
(***************************************************************************)
(* Job orchestration and reconciliation of the mutare simulation scripts:  *)
(* content-addressed job directories (hash_sim_dir), the reconciliation    *)
(* pass (run_sim / exec_sim_run), the per-job lock and typed outcome       *)
(* (execute_sim_job) and the aggregation of outcomes (execute_sim_jobs).   *)
(***************************************************************************)
EXTENDS Integers, Sequences, FiniteSets, TLC

(***************************************************************************)
(* Bounds of the model.                                                    *)
(***************************************************************************)
MaxVal == 2
MaxRuns == 2
MaxFiles == 2
MaxPasses == 2

(***************************************************************************)
(* Configurations.  A configuration is a Python dict of sections, each a   *)
(* dict of parameters; a dict is modelled by the sequence of its           *)
(* <<key, value>> pairs in insertion order.                                *)
(***************************************************************************)
KeyRank(k) ==
    CASE k = "init" -> 1
      [] k = "model" -> 2
      [] k = "n_agents" -> 3
      [] k = "n_phe" -> 4
      [] k = "prob_mut" -> 5

Perms2(a, b) == { <<a, b>>, <<b, a>> }

InitSections == { << <<"n_agents", a>> >> : a \in 1..MaxVal }

ModelSections ==
    UNION { Perms2(<<"n_phe", 2>>, <<"prob_mut", m>>) : m \in 0..(MaxVal - 1) }

Configs ==
    UNION { Perms2(<<"init", i>>, <<"model", m>>) :
              i \in InitSections, m \in ModelSections }

BaseDirs == { "symmetric", "asymmetric" }

\* Python dict equality ignores insertion order: the dict as a set of items.
ItemsOf(s) == { s[i] : i \in DOMAIN s }

DictOf(c) == { <<c[i][1], ItemsOf(c[i][2])>> : i \in DOMAIN c }

\* Insertion of pair p into the key-sorted sequence s.
RECURSIVE InsertSorted(_, _)
InsertSorted(p, s) ==
    IF s = <<>> THEN <<p>>
    ELSE IF KeyRank(p[1]) <= KeyRank(Head(s)[1])
         THEN <<p>> \o s
         ELSE <<Head(s)>> \o InsertSorted(p, Tail(s))

RECURSIVE SortKeysFrom(_, _)
SortKeysFrom(s, acc) ==
    IF s = <<>> THEN acc
    ELSE SortKeysFrom(Tail(s), InsertSorted(Head(s), acc))

\* The keys left in insertion order.
SortKeysInsertionOrder(s) == s

SortKeys(s) == SortKeysFrom(s, <<>>)

\* json.dumps(config, sort_keys=True): keys sorted at every nesting level.
JsonDumps(c) ==
    SortKeys([i \in DOMAIN c |-> <<c[i][1], SortKeys(c[i][2])>>])

\* The tokens of the JSON text, in order.
RECURSIVE PairTokens(_)
PairTokens(s) ==
    IF s = <<>> THEN <<>>
    ELSE <<KeyRank(Head(s)[1]), Head(s)[2]>> \o PairTokens(Tail(s))

RECURSIVE JsonTokens(_)
JsonTokens(j) ==
    IF j = <<>> THEN <<>>
    ELSE <<KeyRank(Head(j)[1])>> \o PairTokens(Head(j)[2]) \o JsonTokens(Tail(j))

\* hashlib.sha256(...).hexdigest(): a digest of the text, taken to be free of
\* collisions (a positional code of the tokens).
DigestBase == MaxVal + 6

RECURSIVE Sha256From(_, _)
Sha256From(toks, acc) ==
    IF toks = <<>> THEN acc
    ELSE Sha256From(Tail(toks), acc * DigestBase + Head(toks) + 1)

Sha256(j) == Sha256From(JsonTokens(j), 0)

\* sim_dir = base_dir / config_hash
SimDirOf(base_dir, config) == <<base_dir, Sha256(JsonDumps(config))>>

\* The job directory of every job of the model.
DirTable == [b \in BaseDirs, c \in Configs |-> SimDirOf(b, c)]

\* toml.dump: one table header per section, then its key = value lines, in
\* insertion order.
RECURSIVE TomlDump(_)
TomlDump(c) ==
    IF c = <<>> THEN <<>>
    ELSE << <<"table", Head(c)[1]>> >>
         \o [i \in DOMAIN Head(c)[2] |->
                <<"key", Head(c)[2][i][1], Head(c)[2][i][2]>>]
         \o TomlDump(Tail(c))

\* toml.load: the key lines below each table header form that table.
RECURSIVE TableItems(_)
TableItems(text) ==
    IF text = <<>> \/ Head(text)[1] = "table" THEN {}
    ELSE { <<Head(text)[2], Head(text)[3]>> } \cup TableItems(Tail(text))

RECURSIVE TomlLoad(_)
TomlLoad(text) ==
    IF text = <<>> THEN {}
    ELSE IF Head(text)[1] = "table"
         THEN { <<Head(text)[2], TableItems(Tail(text))>> } \cup TomlLoad(Tail(text))
         ELSE TomlLoad(Tail(text))

(***************************************************************************)
(* State.                                                                  *)
(***************************************************************************)
VARIABLES
    variant,      \* which scripts run: "exec" (utils/exec.py), "manager"
                  \* (utils/manager.py + utils/runner.py), "tools" (mutare_tools)
    cfgFile,      \* per job directory: config.toml
    runs,         \* per job directory: the run-NNNN directories
    lock,         \* per job directory: holder of the flock on .lock (0: free)
    pc,           \* per process: position in the code
    job,          \* per process: the SimJob being executed
    site,         \* per process: which use of sim_job.sim_dir is being evaluated
    loc,          \* per process: run_sim's locals
    stop,         \* per process: stop_requested
    outcome,      \* per process: the JobResult returned, or what hash_sim_dir did
    cnt,          \* per process: what this pass did: engine invocations spawned,
                  \* config.toml opened for writing, lock refused, run_sim
                  \* returned (every run of exec_sim_job FINISHED)
    file0,        \* per process: config.toml as the hash_sim_dir call found it
    idem,         \* per process: the previous pass finished with the same options
    snap,         \* per process: runs and shards on disk when the pass started
    ep,           \* per process: totals over the passes of one rerun series
    job_results,  \* execute_sim_jobs: the outcomes pool.map returned
    exit_result,  \* execute_sim_jobs: how the call ended
    invoker,      \* per process: where it is inside run_bin / exec_bin, and
                  \* the engine child it spawned
    parent,       \* the process that called execute_sim_jobs: its
                  \* stop_requested and whether it has forked the pool
    dispatch,     \* execute_sim_jobs / exec_sim_jobs: the jobs submitted and
                  \* which of them have been executed
    heap,         \* the Python objects (config dicts, their sections,
                  \* RunOptions) by identity
    frame         \* create_sim_jobs: its locals, the list it builds, and the
                  \* objects its caller holds

diskVars == <<cfgFile, runs, lock>>
passVars == <<loc, cnt, idem, snap, ep>>
objVars == <<heap, frame>>
extVars == <<invoker, parent, dispatch, objVars>>
aggVars == <<job_results, exit_result, extVars>>
vars == <<variant, cfgFile, runs, lock, pc, job, site, loc, stop, outcome, cnt,
          file0, idem, snap, ep, job_results, exit_result, invoker, parent,
          dispatch, heap, frame>>

Procs == {1, 2}
RunIdx == 0..(MaxRuns - 1)

NoRun == [dir |-> FALSE, ckpt |-> FALSE, shards |-> 0, ana |-> "none", lock |-> 0]
NoFile == [exists |-> FALSE, text |-> <<>>]
NoOpts == [n_runs |-> 0, n_files |-> 0, clean |-> FALSE, analyze |-> FALSE]
DefaultConfig ==
    << <<"model", << <<"n_phe", 2>>, <<"prob_mut", 0>> >> >>,
       <<"init", << <<"n_agents", 1>> >> >> >>
NoJob == [base_dir |-> "symmetric", config |-> DefaultConfig, run_options |-> NoOpts]
NoLoc == [n_runs |-> 0, run_idx |-> 0, n_files |-> 0, analyze |-> FALSE,
          run_results |-> <<>>]
NoCnt == [clean |-> 0, create |-> 0, resume |-> [r \in RunIdx |-> 0], analyze |-> 0,
          cfg_writes |-> 0, lock_refused |-> FALSE, returned |-> FALSE,
          exit_nonzero |-> 0, seen_runs |-> 0, seen_files |-> [r \in RunIdx |-> 0]]
NoSnap == [runs0 |-> 0, shards0 |-> [r \in RunIdx |-> 0]]
NoEp == [on |-> FALSE, passes |-> 0, runs0 |-> 0, shards0 |-> [r \in RunIdx |-> 0],
         create |-> 0, resume |-> [r \in RunIdx |-> 0], failed |-> 0]

SimDir(p) == DirTable[job[p].base_dir, job[p].config]

\* The file system holds what was written; a path never written is absent.
NoRuns == [r \in RunIdx |-> NoRun]
NoEntries == [d \in {} |-> 0]
CfgOf(d) == IF d \in DOMAIN cfgFile THEN cfgFile[d] ELSE NoFile
RunsOf(d) == IF d \in DOMAIN runs THEN runs[d] ELSE NoRuns
HolderOf(d) == IF d \in DOMAIN lock THEN lock[d] ELSE 0
Put(fs, d, v) == [x \in DOMAIN fs \cup {d} |-> IF x = d THEN v ELSE fs[x]]

DiskEmpty ==
    /\ cfgFile = NoEntries
    /\ runs = NoEntries
    /\ lock = NoEntries

ProcsIdle ==
    /\ pc = [p \in Procs |-> "idle"]
    /\ job = [p \in Procs |-> NoJob]
    /\ site = [p \in Procs |-> 0]
    /\ loc = [p \in Procs |-> NoLoc]
    /\ stop = [p \in Procs |-> FALSE]
    /\ outcome = [p \in Procs |-> "none"]
    /\ cnt = [p \in Procs |-> NoCnt]
    /\ file0 = [p \in Procs |-> NoFile]
    /\ idem = [p \in Procs |-> FALSE]
    /\ snap = [p \in Procs |-> NoSnap]
    /\ ep = [p \in Procs |-> NoEp]

NoExit == [kind |-> "none", arg |-> 0, msg |-> "", code |-> -1]

\* No run_bin call is under way, no engine child runs.
NoInvoker == [at |-> "out", child |-> "none", late |-> FALSE,
              after_signal |-> FALSE, calls |-> 0, spawns |-> 0, raised |-> 0,
              signalled |-> FALSE, in_flight |-> FALSE, waited |-> FALSE]

NoParent == [stop_requested |-> FALSE, pool |-> "none"]

NoDispatch == [sim_jobs |-> <<>>, executed |-> {}, collected |-> FALSE]

InvokerIdle ==
    /\ invoker = [p \in Procs |-> NoInvoker]
    /\ parent = NoParent

NoFrame == [pc |-> "idle", caller_config |-> 0, caller_options |-> 0,
            config |-> 0, value |-> 0, inner |-> 0, sim_jobs |-> <<>>]

ObjIdle ==
    /\ heap = <<>>
    /\ frame = NoFrame

ExtIdle ==
    /\ InvokerIdle
    /\ dispatch = NoDispatch
    /\ ObjIdle

AggIdle ==
    /\ job_results = <<>>
    /\ exit_result = NoExit
    /\ ExtIdle

(***************************************************************************)
(* hash_sim_dir(base_dir, config), step by step.  site 0 is a bare call;   *)
(* sites 1, 2, 3 are the three evaluations of sim_job.sim_dir in           *)
(* execute_sim_job of utils/exec.py (lines 148, 150, 153); site 4 is the   *)
(* evaluation in exec_sim_job of mutare_tools/exec.py.                     *)
(***************************************************************************)
KeepLock(p) == lock

\* closing lock_file drops the flock the process holds
Release(p) == [d \in DOMAIN lock |-> IF lock[d] = p THEN 0 ELSE lock[d]]

ErrorSwallowed(p, res) ==
    /\ pc' = pc
    /\ outcome' = [outcome EXCEPT ![p] = res]
    /\ lock' = lock

\* execute_sim_job returns res; leaving the with block closes .lock.
ExitJob(p, res) ==
    /\ pc' = [pc EXCEPT ![p] = "done"]
    /\ outcome' = [outcome EXCEPT ![p] = res]
    /\ lock' = Release(p)

\* hash_sim_dir returns sim_dir to its caller.
HashReturn(p) ==
    /\ pc' = [pc EXCEPT ![p] =
                CASE site[p] = 0 -> "hash_done"
                  [] site[p] = 1 -> "hash_check"
                  [] site[p] = 2 -> "flock"
                  [] site[p] = 3 -> "run_sim"
                  [] site[p] = 4 -> "pool"]
    /\ site' = [site EXCEPT ![p] = IF @ = 1 THEN 2 ELSE @]
    /\ outcome' = [outcome EXCEPT ![p] = IF site[p] = 0 THEN "returned" ELSE @]
    /\ lock' = lock

\* hash_sim_dir raises ValueError("config mismatch ...").
HashRaise(p) ==
    IF site[p] = 0
    THEN /\ pc' = [pc EXCEPT ![p] = "hash_done"]
         /\ outcome' = [outcome EXCEPT ![p] = "mismatch"]
         /\ lock' = lock
         /\ site' = site
    ELSE /\ ExitJob(p, IF site[p] = 4 THEN "RAISED" ELSE "FAILED")
         /\ site' = site

\* A bare call hash_sim_dir(base_dir, config), no other call being under way.
HashCall(p, base_dir, config) ==
    /\ pc[p] = "idle"
    /\ \A q \in Procs : pc[q] \in {"idle", "hash_done"}
    /\ job' = [job EXCEPT ![p] = [base_dir |-> base_dir, config |-> config,
                                  run_options |-> NoOpts]]
    /\ site' = [site EXCEPT ![p] = 0]
    /\ file0' = [file0 EXCEPT ![p] = CfgOf(DirTable[base_dir, config])]
    /\ pc' = [pc EXCEPT ![p] = "hash_check"]
    /\ UNCHANGED <<variant, diskVars, passVars, stop, outcome, aggVars>>

\* if config_file.exists():
HashCheck(p) ==
    /\ pc[p] = "hash_check"
    /\ pc' = [pc EXCEPT ![p] =
                IF CfgOf(SimDir(p)).exists THEN "hash_load" ELSE "hash_open"]
    /\ UNCHANGED <<variant, diskVars, job, site, passVars, stop, outcome,
                   file0, aggVars>>

\* if load_config(sim_dir) != config: raise ValueError
ConfigMismatch(p) == TomlLoad(CfgOf(SimDir(p)).text) # DictOf(job[p].config)

\* A mismatch answered by writing the configuration over the persisted one.
HashLoadOverwrite(p) ==
    /\ pc[p] = "hash_load"
    /\ IF ConfigMismatch(p)
       THEN /\ pc' = [pc EXCEPT ![p] = "hash_open"]
            /\ UNCHANGED <<site, outcome, lock>>
       ELSE HashReturn(p)
    /\ UNCHANGED <<variant, cfgFile, runs, job, passVars, stop, file0, aggVars>>

HashLoad(p) ==
    /\ pc[p] = "hash_load"
    /\ IF ConfigMismatch(p) THEN HashRaise(p) ELSE HashReturn(p)
    /\ UNCHANGED <<variant, cfgFile, runs, job, passVars, stop, file0, aggVars>>

\* sim_dir.mkdir(parents=True, exist_ok=True); open(config.toml, "w")
HashOpen(p) ==
    /\ pc[p] = "hash_open"
    /\ cfgFile' = Put(cfgFile, SimDir(p), [exists |-> TRUE, text |-> <<>>])
    /\ pc' = [pc EXCEPT ![p] = "hash_write"]
    /\ cnt' = [cnt EXCEPT ![p] = [@ EXCEPT !.cfg_writes = @ + 1]]
    /\ UNCHANGED <<variant, runs, lock, job, site, loc, idem, snap, ep, stop, outcome,
                   file0, aggVars>>

\* toml.dump(config, file), the file closed; return sim_dir
HashWrite(p) ==
    /\ pc[p] = "hash_write"
    /\ cfgFile' = Put(cfgFile, SimDir(p),
                      [exists |-> TRUE, text |-> TomlDump(job[p].config)])
    /\ HashReturn(p)
    /\ UNCHANGED <<variant, runs, job, passVars, stop, file0, aggVars>>

HashStep(p) == HashCheck(p) \/ HashLoad(p) \/ HashOpen(p) \/ HashWrite(p)

(***************************************************************************)
(* SpecHash: two calls of hash_sim_dir, one after the other, on a base     *)
(* directory in which one job directory may already hold a configuration   *)
(* (of an earlier run, or edited by hand).                                 *)
(***************************************************************************)
InitHash ==
    /\ variant = "exec"
    /\ ProcsIdle
    /\ AggIdle
    /\ runs = NoEntries
    /\ lock = NoEntries
    /\ \/ cfgFile = NoEntries
       \/ \E c0, c \in Configs :
            cfgFile = Put(NoEntries, DirTable["symmetric", c0],
                          [exists |-> TRUE, text |-> TomlDump(JsonDumps(c))])

FirstHashCall == \E c \in Configs : HashCall(1, "symmetric", c)

SecondHashCall ==
    /\ pc[1] = "hash_done"
    /\ \E b \in BaseDirs, c \in Configs : HashCall(2, b, c)

HashCalls == FirstHashCall \/ SecondHashCall

HashSteps == \E p \in Procs : HashStep(p)

NextHash == HashCalls \/ HashSteps

SpecHash == InitHash /\ [][NextHash]_vars

\* C6: identity integrity.  A call of hash_sim_dir that finds a persisted
\* configuration different from its own ends by raising the config-mismatch
\* error and leaves the job directory as it found it: config.toml not
\* rewritten, no run created, no engine invocation issued.
C6_IdentityIntegrity ==
    \A p \in Procs :
        ( /\ pc[p] = "hash_done"
          /\ file0[p].exists
          /\ TomlLoad(file0[p].text) # DictOf(job[p].config) )
        => ( /\ outcome[p] = "mismatch"
             /\ CfgOf(SimDir(p)) = file0[p]
             /\ RunsOf(SimDir(p)) = NoRuns
             /\ cnt[p] = NoCnt )

C6_Witness ==
    \E p \in Procs :
        /\ pc[p] = "hash_done"
        /\ outcome[p] = "mismatch"
        /\ file0[p].exists
        /\ TomlLoad(file0[p].text) # DictOf(job[p].config)

\* C7: determinism of job identity.  Two calls of hash_sim_dir that returned,
\* with the same base_dir and configurations that are equal as dicts (in any
\* insertion order of the keys), returned the same directory, whatever the
\* earlier call left on disk.
C7_Determinism ==
    \A p, q \in Procs :
        ( /\ pc[p] = "hash_done" /\ outcome[p] = "returned"
          /\ pc[q] = "hash_done" /\ outcome[q] = "returned"
          /\ job[p].base_dir = job[q].base_dir
          /\ DictOf(job[p].config) = DictOf(job[q].config) )
        => SimDir(p) = SimDir(q)

C7_Witness ==
    /\ pc[1] = "hash_done" /\ outcome[1] = "returned"
    /\ pc[2] = "hash_done" /\ outcome[2] = "returned"
    /\ job[1].base_dir = job[2].base_dir
    /\ DictOf(job[1].config) = DictOf(job[2].config)
    /\ job[1].config # job[2].config
    /\ job[1].config[1][1] # job[2].config[1][1]

(***************************************************************************)
(* The engine (target/release/mutare), by its contract: create allocates   *)
(* the next run directory and its checkpoint, resume appends one shard to  *)
(* a run, analyze writes the analysis of every run, clean deletes all run  *)
(* data.  An invocation that exits non-zero leaves the directory as it     *)
(* was.                                                                    *)
(***************************************************************************)
NumRuns(rs) == Cardinality({ r \in RunIdx : rs[r].dir })

CanCreate(rs) == NumRuns(rs) \in RunIdx

EngineCreate(rs) ==
    [rs EXCEPT ![NumRuns(rs)] = [NoRun EXCEPT !.dir = TRUE, !.ckpt = TRUE]]

CanResume(rs, r) == r \in RunIdx /\ rs[r].ckpt

EngineResume(rs, r) ==
    [rs EXCEPT ![r] = [@ EXCEPT !.shards = @ + 1,
                                !.ana = IF @ = "fresh" THEN "stale" ELSE @]]

EngineAnalyze(rs) ==
    [r \in RunIdx |-> IF rs[r].dir THEN [rs[r] EXCEPT !.ana = "fresh"] ELSE rs[r]]

EngineClean(rs) == [r \in RunIdx |-> NoRun]

(***************************************************************************)
(* run_bin(sim_dir, extra_args): raise StopRequested when the flag is set, *)
(* else spawn the engine and wait; a non-zero exit raises.                 *)
(***************************************************************************)
Spawned(p, verb, r) ==
    [cnt EXCEPT ![p] =
        CASE verb = "clean" -> [@ EXCEPT !.clean = @ + 1]
          [] verb = "create" -> [@ EXCEPT !.create = @ + 1]
          [] verb = "resume" -> [@ EXCEPT !.resume[r] = @ + 1]
          [] verb = "analyze" -> [@ EXCEPT !.analyze = @ + 1]]

\* The create and resume invocations of a rerun series that exited 0, and
\* the number of those that exited non-zero.
Completed(p, verb, r) ==
    [ep EXCEPT ![p] =
        CASE ~ep[p].on -> @
          [] verb = "create" -> [@ EXCEPT !.create = @ + 1]
          [] verb = "resume" -> [@ EXCEPT !.resume[r] = @ + 1]
          [] OTHER -> @]

Crashed(p, verb) ==
    [ep EXCEPT ![p] =
        IF ep[p].on /\ verb \in {"create", "resume"}
        THEN [@ EXCEPT !.failed = @ + 1] ELSE @]

\* What execute_sim_job does once run_sim has returned: utils/exec.py
\* returns FINISHED; utils/manager.py subscripts the RunOptions dataclass
\* (sim_job["run_options"]["analyze"]), the TypeError is caught and the job
\* is FAILED.
AfterRunSim == IF variant = "manager" THEN "FAILED" ELSE "FINISHED"

RunSimReturned(p, c) == [c EXCEPT ![p] = [@ EXCEPT !.returned = TRUE]]

\* what run_sim read from the directory: len(list(sim_dir.glob("run-*"))) and,
\* for a run, len(list(run_dir.glob("output-*")))
GlobbedRuns(p, c, n) == [c EXCEPT ![p] = [@ EXCEPT !.seen_runs = n]]

GlobbedFiles(p, c, r, n) == [c EXCEPT ![p] = [@ EXCEPT !.seen_files[r] = n]]

\* subprocess.run(..., check=True): the engine exited non-zero and
\* CalledProcessError leaves run_bin
ExitedNonZero(p, c) == [c EXCEPT ![p] = [@ EXCEPT !.exit_nonzero = @ + 1]]

RunBin(p, verb, r, canOK, runsOK, locOK, pcOK) ==
    \/ /\ stop[p]
       /\ ExitJob(p, "STOPPED")
       /\ UNCHANGED <<runs, loc, cnt, ep>>
    \/ /\ ~stop[p]
       /\ cnt' = ExitedNonZero(p, Spawned(p, verb, r))
       /\ ep' = Crashed(p, verb)
       /\ ExitJob(p, "FAILED")
       /\ UNCHANGED <<runs, loc>>
    \/ /\ ~stop[p]
       /\ canOK
       /\ ep' = Completed(p, verb, r)
       /\ runs' = Put(runs, SimDir(p), runsOK)
       /\ loc' = [loc EXCEPT ![p] = locOK]
       /\ IF pcOK = "done"
          THEN /\ cnt' = RunSimReturned(p, Spawned(p, verb, r))
               /\ ExitJob(p, AfterRunSim)
          ELSE /\ cnt' = Spawned(p, verb, r)
               /\ pc' = [pc EXCEPT ![p] = pcOK]
               /\ UNCHANGED <<outcome, lock>>

\* request_stop: the SIGTERM handler of the process.
RequestStop(p) ==
    /\ pc[p] \notin {"idle", "done", "hash_done"}
    /\ ~stop[p]
    /\ stop' = [stop EXCEPT ![p] = TRUE]
    /\ UNCHANGED <<variant, diskVars, pc, job, site, passVars, outcome, file0, aggVars>>

(***************************************************************************)
(* execute_sim_job(sim_job), started in a fresh orchestrator process.      *)
(***************************************************************************)
DiskSnap(d) == [runs0 |-> NumRuns(RunsOf(d)),
                shards0 |-> [r \in RunIdx |-> RunsOf(d)[r].shards]]

JobStart(p, base_dir, config, opt) ==
    /\ pc[p] \in {"idle", "done"}
    /\ LET j == [base_dir |-> base_dir, config |-> config, run_options |-> opt]
           d == DirTable[base_dir, config]
           same == pc[p] = "done" /\ job[p] = j
       IN /\ job' = [job EXCEPT ![p] = j]
          /\ idem' = [idem EXCEPT ![p] = same /\ cnt[p].returned]
          /\ snap' = [snap EXCEPT ![p] = DiskSnap(d)]
          /\ ep' = [ep EXCEPT ![p] = IF @.on THEN [@ EXCEPT !.passes = @ + 1] ELSE @]
    /\ pc' = [pc EXCEPT ![p] = IF variant = "manager" THEN "flock" ELSE "hash_check"]
    /\ site' = [site EXCEPT ![p] = CASE variant = "exec" -> 1
                                      [] variant = "tools" -> 4
                                      [] OTHER -> 0]
    /\ stop' = [stop EXCEPT ![p] = FALSE]
    /\ outcome' = [outcome EXCEPT ![p] = "none"]
    /\ cnt' = [cnt EXCEPT ![p] = NoCnt]
    /\ loc' = [loc EXCEPT ![p] = NoLoc]
    /\ UNCHANGED <<variant, diskVars, file0, aggVars>>

\* fcntl.flock(lock_file, LOCK_EX | LOCK_NB): BlockingIOError when held.
Flock(p) ==
    /\ pc[p] = "flock"
    /\ IF HolderOf(SimDir(p)) = 0
       THEN /\ lock' = Put(lock, SimDir(p), p)
            /\ pc' = [pc EXCEPT ![p] = IF variant = "exec" THEN "hash_check"
                                       ELSE "save_open"]
            /\ site' = [site EXCEPT ![p] = IF variant = "exec" THEN 3 ELSE @]
            /\ UNCHANGED <<outcome, cnt>>
       ELSE /\ ExitJob(p, "FAILED")
            /\ cnt' = [cnt EXCEPT ![p] = [@ EXCEPT !.lock_refused = TRUE]]
            /\ UNCHANGED site
    /\ UNCHANGED <<variant, cfgFile, runs, job, loc, idem, snap, ep, stop, file0, aggVars>>

\* utils/manager.py: save_config(sim_job["config"], sim_dir) under the lock.
SaveOpen(p) ==
    /\ pc[p] = "save_open"
    /\ cfgFile' = Put(cfgFile, SimDir(p), [exists |-> TRUE, text |-> <<>>])
    /\ pc' = [pc EXCEPT ![p] = "save_write"]
    /\ cnt' = [cnt EXCEPT ![p] = [@ EXCEPT !.cfg_writes = @ + 1]]
    /\ UNCHANGED <<variant, runs, lock, job, site, loc, idem, snap, ep, stop, outcome,
                   file0, aggVars>>

SaveWrite(p) ==
    /\ pc[p] = "save_write"
    /\ cfgFile' = Put(cfgFile, SimDir(p),
                      [exists |-> TRUE, text |-> TomlDump(job[p].config)])
    /\ pc' = [pc EXCEPT ![p] = "run_sim"]
    /\ UNCHANGED <<variant, runs, lock, job, site, passVars, stop, outcome,
                   file0, aggVars>>

(***************************************************************************)
(* run_sim(sim_dir, run_options): utils/exec.py ("exec") and               *)
(* utils/runner.py ("manager").                                            *)
(***************************************************************************)
Opt(p) == job[p].run_options

CleansAlways(p) == TRUE

CleansNever(p) == FALSE

WantsClean(p) == variant = "manager" /\ Opt(p).clean

\* if run_options.clean: run_bin(sim_dir, ["clean"])
RunSimClean(p) ==
    /\ pc[p] = "run_sim"
    /\ WantsClean(p)
    /\ RunBin(p, "clean", 0, TRUE, EngineClean(RunsOf(SimDir(p))), loc[p], "count_runs")
    /\ UNCHANGED <<variant, cfgFile, job, site, stop, file0, idem, snap, aggVars>>

\* analyze = False; n_runs = len(list(sim_dir.glob("run-*")))
CountRuns(p) ==
    /\ \/ pc[p] = "count_runs"
       \/ pc[p] = "run_sim" /\ ~WantsClean(p)
    /\ loc' = [loc EXCEPT ![p] = [NoLoc EXCEPT !.n_runs = NumRuns(RunsOf(SimDir(p)))]]
    /\ cnt' = GlobbedRuns(p, cnt, NumRuns(RunsOf(SimDir(p))))
    /\ pc' = [pc EXCEPT ![p] = "create_loop"]
    /\ UNCHANGED <<variant, diskVars, job, site, stop, outcome, file0,
                   idem, snap, ep, aggVars>>

LoopNotCounted(n) == n

\* n_runs += 1, n_files += 1: the loops count the invocations they made, the
\* directory is not read again
LoopCounted(n) == n + 1

MoreRunsInclusive(p) == loc[p].n_runs <= Opt(p).n_runs

NoMoreRuns(p) == FALSE

MoreRuns(p) == loc[p].n_runs < Opt(p).n_runs

\* while n_runs < run_options.n_runs: run_bin(sim_dir, ["create"]); n_runs += 1
CreateRun(p) ==
    /\ pc[p] = "create_loop"
    /\ MoreRuns(p)
    /\ RunBin(p, "create", 0, CanCreate(RunsOf(SimDir(p))),
              EngineCreate(RunsOf(SimDir(p))),
              [loc[p] EXCEPT !.n_runs = LoopCounted(@)], "create_loop")
    /\ UNCHANGED <<variant, cfgFile, job, site, stop, file0, idem, snap, aggVars>>

\* for run_idx in range(run_options.n_runs):
EnterFor(p) ==
    /\ pc[p] = "create_loop"
    /\ ~MoreRuns(p)
    /\ loc' = [loc EXCEPT ![p] = [@ EXCEPT !.run_idx = 0]]
    /\ pc' = [pc EXCEPT ![p] = "for_run"]
    /\ UNCHANGED <<variant, diskVars, job, site, stop, outcome, cnt, file0,
                   idem, snap, ep, aggVars>>

AnalysisNeverFound(p) == variant = "exec"

\* utils/exec.py: if not (run_dir / "analysis.msgpack").exists(): analyze = True
AnalysisMissing(p) ==
    variant = "exec" /\ RunsOf(SimDir(p))[loc[p].run_idx].ana = "none"

\* the loop head: the next run's files are counted, or the loop ends
ForRun(p) ==
    /\ pc[p] = "for_run"
    /\ IF loc[p].run_idx < Opt(p).n_runs
       THEN /\ loc' = [loc EXCEPT ![p] =
                         [@ EXCEPT !.analyze = @ \/ AnalysisMissing(p),
                                   !.n_files = RunsOf(SimDir(p))[loc[p].run_idx].shards]]
            /\ cnt' = GlobbedFiles(p, cnt, loc[p].run_idx,
                                    RunsOf(SimDir(p))[loc[p].run_idx].shards)
            /\ pc' = [pc EXCEPT ![p] = "resume_loop"]
       ELSE /\ loc' = loc
            /\ cnt' = cnt
            /\ pc' = [pc EXCEPT ![p] = "analyze"]
    /\ UNCHANGED <<variant, diskVars, job, site, stop, outcome, file0,
                   idem, snap, ep, aggVars>>

NoMoreFiles(p) == FALSE

MoreFilesInclusive(p) == loc[p].n_files <= Opt(p).n_files

MoreFiles(p) == loc[p].n_files < Opt(p).n_files

\* while n_files < run_options.n_files: run_bin(sim_dir, ["resume", ...])
ResumeRun(p) ==
    /\ pc[p] = "resume_loop"
    /\ MoreFiles(p)
    /\ RunBin(p, "resume", loc[p].run_idx,
              CanResume(RunsOf(SimDir(p)), loc[p].run_idx),
              EngineResume(RunsOf(SimDir(p)), loc[p].run_idx),
              [loc[p] EXCEPT !.n_files = LoopCounted(@),
                             !.analyze = IF variant = "exec" THEN TRUE ELSE @],
              "resume_loop")
    /\ UNCHANGED <<variant, cfgFile, job, site, stop, file0, idem, snap, aggVars>>

NextRun(p) ==
    /\ pc[p] = "resume_loop"
    /\ ~MoreFiles(p)
    /\ loc' = [loc EXCEPT ![p] = [@ EXCEPT !.run_idx = @ + 1]]
    /\ pc' = [pc EXCEPT ![p] = "for_run"]
    /\ UNCHANGED <<variant, diskVars, job, site, stop, outcome, cnt, file0,
                   idem, snap, ep, aggVars>>

MustAnalyzeNever(p) == FALSE

\* utils/exec.py: if analyze; utils/runner.py: if run_options.analyze
MustAnalyze(p) == IF variant = "exec" THEN loc[p].analyze ELSE Opt(p).analyze

\* run_bin(sim_dir, ["analyze"]), then run_sim returns and the job is FINISHED
Analyze(p) ==
    /\ pc[p] = "analyze"
    /\ MustAnalyze(p)
    /\ RunBin(p, "analyze", 0, TRUE, EngineAnalyze(RunsOf(SimDir(p))), loc[p], "done")
    /\ UNCHANGED <<variant, cfgFile, job, site, stop, file0, idem, snap, aggVars>>

SkipAnalyze(p) ==
    /\ pc[p] = "analyze"
    /\ ~MustAnalyze(p)
    /\ cnt' = RunSimReturned(p, cnt)
    /\ ExitJob(p, AfterRunSim)
    /\ UNCHANGED <<variant, cfgFile, runs, job, site, loc, idem, snap, ep, stop,
                   file0, aggVars>>

RunSimStep(p) ==
    \/ RunSimClean(p) \/ CountRuns(p) \/ CreateRun(p) \/ EnterFor(p)
    \/ ForRun(p) \/ ResumeRun(p) \/ NextRun(p) \/ Analyze(p) \/ SkipAnalyze(p)

(***************************************************************************)
(* mutare_tools/exec.py ("tools"): exec_sim_job hands every run of the job *)
(* to exec_sim_run, and the engine is invoked per run (--run-idx).  The    *)
(* pool has one worker here, which takes the runs in list order.           *)
(***************************************************************************)
EngineCreateRun(rs, r) == [rs EXCEPT ![r] = [@ EXCEPT !.dir = TRUE, !.ckpt = TRUE]]

EngineAnalyzeRun(rs, r) == [rs EXCEPT ![r] = [@ EXCEPT !.ana = "fresh"]]

\* exec_sim_run returns res; leaving the with block closes the run's .lock.
RunReturned(p, res) ==
    [loc[p] EXCEPT !.run_results = Append(@, res), !.run_idx = @ + 1]

Unlocked(rs, r, p) ==
    [rs EXCEPT ![r] = [@ EXCEPT !.lock = IF @ = p THEN 0 ELSE @]]

\* exec_bin(sim_run, sim_cmd) inside exec_sim_run
ExecBin(p, verb, canOK, runsOK, locOK, pcOK) ==
    LET r == loc[p].run_idx
        d == SimDir(p)
    IN \/ /\ stop[p]
          /\ loc' = [loc EXCEPT ![p] = RunReturned(p, "PAUSED")]
          /\ runs' = Put(runs, d, Unlocked(RunsOf(d), r, p))
          /\ pc' = [pc EXCEPT ![p] = "pool"]
          /\ cnt' = cnt
       \/ /\ ~stop[p]
          /\ cnt' = Spawned(p, verb, r)
          /\ loc' = [loc EXCEPT ![p] = RunReturned(p, "FAILED")]
          /\ runs' = Put(runs, d, Unlocked(RunsOf(d), r, p))
          /\ pc' = [pc EXCEPT ![p] = "pool"]
       \/ /\ ~stop[p]
          /\ canOK
          /\ cnt' = Spawned(p, verb, r)
          /\ IF pcOK = "pool"
             THEN /\ loc' = [loc EXCEPT ![p] = RunReturned(p, "FINISHED")]
                  /\ runs' = Put(runs, d, Unlocked(runsOK, r, p))
             ELSE /\ loc' = [loc EXCEPT ![p] = locOK]
                  /\ runs' = Put(runs, d, runsOK)
          /\ pc' = [pc EXCEPT ![p] = pcOK]

\* pool.map takes the next run: run_dir is made, its .lock opened and locked
PoolRun(p) ==
    /\ pc[p] = "pool"
    /\ loc[p].run_idx < Opt(p).n_runs
    /\ LET r == loc[p].run_idx
           d == SimDir(p)
           made == [RunsOf(d) EXCEPT ![r] = [@ EXCEPT !.dir = TRUE]]
       IN IF made[r].lock = 0
          THEN /\ runs' = Put(runs, d, [made EXCEPT ![r] = [@ EXCEPT !.lock = p]])
               /\ loc' = [loc EXCEPT ![p] = [@ EXCEPT !.analyze = FALSE]]
               /\ pc' = [pc EXCEPT ![p] = "t_ckpt"]
          ELSE /\ runs' = Put(runs, d, made)
               /\ loc' = [loc EXCEPT ![p] = RunReturned(p, "FAILED")]
               /\ pc' = pc
    /\ UNCHANGED <<variant, cfgFile, lock, job, site, stop, outcome, cnt, file0,
                   idem, snap, ep, aggVars>>

\* if not (run_dir / "checkpoint.msgpack").exists(): exec_bin(sim_run, "create")
RunCreate(p) ==
    /\ pc[p] = "t_ckpt"
    /\ ~RunsOf(SimDir(p))[loc[p].run_idx].ckpt
    /\ ExecBin(p, "create", TRUE,
               EngineCreateRun(RunsOf(SimDir(p)), loc[p].run_idx),
               [loc[p] EXCEPT !.analyze = TRUE], "t_count")
    /\ UNCHANGED <<variant, cfgFile, lock, job, site, stop, outcome, file0,
                   idem, snap, ep, aggVars>>

\* curr_n_files = len(list(run_dir.glob("output-*")))
RunCount(p) ==
    /\ \/ pc[p] = "t_count"
       \/ pc[p] = "t_ckpt" /\ RunsOf(SimDir(p))[loc[p].run_idx].ckpt
    /\ loc' = [loc EXCEPT ![p] =
                 [@ EXCEPT !.n_files = RunsOf(SimDir(p))[loc[p].run_idx].shards]]
    /\ pc' = [pc EXCEPT ![p] = "t_resume"]
    /\ UNCHANGED <<variant, diskVars, job, site, stop, outcome, cnt, file0,
                   idem, snap, ep, aggVars>>

\* while curr_n_files < n_files: exec_bin(sim_run, "resume")
RunResume(p) ==
    /\ pc[p] = "t_resume"
    /\ MoreFiles(p)
    /\ ExecBin(p, "resume", CanResume(RunsOf(SimDir(p)), loc[p].run_idx),
               EngineResume(RunsOf(SimDir(p)), loc[p].run_idx),
               [loc[p] EXCEPT !.n_files = @ + 1, !.analyze = TRUE], "t_resume")
    /\ UNCHANGED <<variant, cfgFile, lock, job, site, stop, outcome, file0,
                   idem, snap, ep, aggVars>>

\* if not (run_dir / "analysis.msgpack").exists(): analyze = True
RunCheckAnalysis(p) ==
    /\ pc[p] = "t_resume"
    /\ ~MoreFiles(p)
    /\ loc' = [loc EXCEPT ![p] =
                 [@ EXCEPT !.analyze =
                     @ \/ RunsOf(SimDir(p))[loc[p].run_idx].ana = "none"]]
    /\ pc' = [pc EXCEPT ![p] = "t_analyze"]
    /\ UNCHANGED <<variant, diskVars, job, site, stop, outcome, cnt, file0,
                   idem, snap, ep, aggVars>>

\* if analyze: exec_bin(sim_run, "analyze"); then return RunResult.FINISHED
RunAnalyze(p) ==
    /\ pc[p] = "t_analyze"
    /\ loc[p].analyze
    /\ ExecBin(p, "analyze", TRUE,
               EngineAnalyzeRun(RunsOf(SimDir(p)), loc[p].run_idx), loc[p], "pool")
    /\ UNCHANGED <<variant, cfgFile, lock, job, site, stop, outcome, file0,
                   idem, snap, ep, aggVars>>

RunSkipAnalyze(p) ==
    /\ pc[p] = "t_analyze"
    /\ ~loc[p].analyze
    /\ loc' = [loc EXCEPT ![p] = RunReturned(p, "FINISHED")]
    /\ runs' = Put(runs, SimDir(p), Unlocked(RunsOf(SimDir(p)), loc[p].run_idx, p))
    /\ pc' = [pc EXCEPT ![p] = "pool"]
    /\ UNCHANGED <<variant, cfgFile, lock, job, site, stop, outcome, cnt, file0,
                   idem, snap, ep, aggVars>>

Count(results, res) == Cardinality({ i \in DOMAIN results : results[i] = res })

\* exec_sim_job after the pool: RuntimeError on a FAILED or a PAUSED run
RunDecision(run_results) ==
    IF Count(run_results, "FAILED") > 0 THEN "FAILED"
    ELSE IF Count(run_results, "PAUSED") > 0 THEN "PAUSED"
    ELSE "FINISHED"

PoolDone(p) ==
    /\ pc[p] = "pool"
    /\ ~(loc[p].run_idx < Opt(p).n_runs)
    /\ ExitJob(p, RunDecision(loc[p].run_results))
    /\ cnt' = IF RunDecision(loc[p].run_results) = "FINISHED"
              THEN RunSimReturned(p, cnt) ELSE cnt
    /\ UNCHANGED <<variant, cfgFile, runs, job, site, loc, idem, snap, ep, stop,
                   file0, aggVars>>

ToolsStep(p) ==
    \/ PoolRun(p) \/ RunCreate(p) \/ RunCount(p) \/ RunResume(p)
    \/ RunCheckAnalysis(p) \/ RunAnalyze(p) \/ RunSkipAnalyze(p) \/ PoolDone(p)

UtilsStep(p) ==
    \/ HashStep(p) \/ Flock(p) \/ SaveOpen(p) \/ SaveWrite(p) \/ RunSimStep(p)

JobStep(p) == UtilsStep(p) \/ ToolsStep(p)

(***************************************************************************)
(* Spec: one job directory reconciled again and again, each pass by a      *)
(* fresh orchestrator process, with any run options, stop requests and     *)
(* engine failures.                                                        *)
(***************************************************************************)
RunOpts ==
    [n_runs : 0..MaxRuns, n_files : 0..MaxFiles, clean : {FALSE}, analyze : {FALSE}]

RunnerOpts ==
    [n_runs : 0..MaxRuns, n_files : 0..MaxFiles, clean : BOOLEAN, analyze : BOOLEAN]

Init ==
    /\ variant \in {"exec", "manager", "tools"}
    /\ DiskEmpty
    /\ ProcsIdle
    /\ AggIdle

StartPass ==
    \E opt \in IF variant = "manager" THEN RunnerOpts ELSE RunOpts :
        JobStart(1, "symmetric", DefaultConfig, opt)

PassStep == JobStep(1)

Signal == RequestStop(1)

Next == StartPass \/ PassStep \/ Signal

Spec == Init /\ [][Next]_vars

(***************************************************************************)
(* SpecUtils: the same, for utils/exec.py and utils/runner.py only.        *)
(***************************************************************************)
InitUtils ==
    /\ variant \in {"exec", "manager"}
    /\ DiskEmpty
    /\ ProcsIdle
    /\ AggIdle

UtilsPassStep == UtilsStep(1)

NextUtils == StartPass \/ UtilsPassStep \/ Signal

SpecUtils == InitUtils /\ [][NextUtils]_vars

(***************************************************************************)
(* SpecCleanStart: a pass over an empty base directory, and the pass that  *)
(* follows it.                                                             *)
(***************************************************************************)
EarlyPass == (pc[1] = "idle" \/ snap[1].runs0 = 0) /\ StartPass

NextCleanStart == EarlyPass \/ PassStep \/ Signal

SpecCleanStart == Init /\ [][NextCleanStart]_vars


\* the pass is over and its run_sim has returned without error
Finished(p) == pc[p] = "done" /\ cnt[p].returned

NoInvocations(p) ==
    /\ cnt[p].clean = 0
    /\ cnt[p].create = 0
    /\ cnt[p].analyze = 0
    /\ \A r \in RunIdx : cnt[p].resume[r] = 0

Max0(n) == IF n > 0 THEN n ELSE 0

\* C1 as stated: for every value of the run options, a pass that follows a
\* finished pass of the same job with the same options, on the directory that
\* pass left, spawns no engine invocation at all.
C1_IdempotentAllOptions == idem[1] => NoInvocations(1)

\* C1, amended: the second pass spawns no engine invocation for every
\* (n_runs, n_files) in utils/exec.py, and in utils/runner.py when the
\* options request neither clean nor analyze.
C1_Idempotence ==
    ( /\ idem[1]
      /\ ~(variant = "manager" /\ (Opt(1).clean \/ Opt(1).analyze)) )
    => NoInvocations(1)

C1_Witness ==
    /\ idem[1]
    /\ Finished(1)
    /\ variant = "exec"
    /\ Opt(1).n_runs = MaxRuns
    /\ Opt(1).n_files = MaxFiles
    /\ NoInvocations(1)

\* C3: whenever a pass of run_sim (utils/exec.py) or of the runs of
\* exec_sim_job (mutare_tools/exec.py) ends FINISHED, every run in
\* [0, n_runs) has an analysis produced after its last shard was added.
C3_AnalysisFresh ==
    (Finished(1) /\ variant \in {"exec", "tools"})
    => \A r \in RunIdx :
          r < Opt(1).n_runs => RunsOf(SimDir(1))[r].ana = "fresh"

\* C8 as stated: a finished pass has spawned, for every run, exactly
\* max(0, n_files - shards on disk when the pass started) resume invocations.
C8_ResumesFromDisk ==
    Finished(1)
    => \A r \in RunIdx :
          r < Opt(1).n_runs
          => cnt[1].resume[r] = Max0(Opt(1).n_files - snap[1].shards0[r])

\* C8, amended: the count is max(0, n_files - shards on disk at the start)
\* when the pass does not request clean, and n_files when it does; no resume
\* is spawned for a run index outside [0, n_runs).
C8_Incrementality ==
    Finished(1)
    => \A r \in RunIdx :
          cnt[1].resume[r] =
              IF r >= Opt(1).n_runs THEN 0
              ELSE IF WantsClean(1) THEN Opt(1).n_files
              ELSE Max0(Opt(1).n_files - snap[1].shards0[r])

C8_Witness ==
    /\ Finished(1)
    /\ ~WantsClean(1)
    /\ Opt(1).n_runs = MaxRuns
    /\ Opt(1).n_files = MaxFiles
    /\ snap[1].runs0 = MaxRuns
    /\ \A r \in RunIdx : /\ snap[1].shards0[r] = MaxFiles - 1
                         /\ cnt[1].resume[r] = 1

CleanStart(p) ==
    /\ Finished(p)
    /\ variant \in {"exec", "tools"}
    /\ snap[p].runs0 = 0

\* C9 as stated: a finished pass over an empty job directory has spawned
\* n_runs create, n_files resume for each run and n_runs analyze invocations.
C9_AnalyzePerRun ==
    CleanStart(1)
    => /\ cnt[1].create = Opt(1).n_runs
       /\ \A r \in RunIdx : r < Opt(1).n_runs => cnt[1].resume[r] = Opt(1).n_files
       /\ cnt[1].analyze = Opt(1).n_runs

\* C9, amended: n_runs create and n_files resume for each run in both
\* programs; exec_sim_run (mutare_tools) spawns one analyze per run, run_sim
\* (utils/exec.py) one analyze for the whole job when n_runs > 0.
C9_CleanStartCounts ==
    CleanStart(1)
    => /\ cnt[1].clean = 0
       /\ cnt[1].create = Opt(1).n_runs
       /\ \A r \in RunIdx :
             cnt[1].resume[r] = IF r < Opt(1).n_runs THEN Opt(1).n_files ELSE 0
       /\ cnt[1].analyze = IF variant = "tools" THEN Opt(1).n_runs
                           ELSE IF Opt(1).n_runs > 0 THEN 1 ELSE 0

C9_Witness ==
    /\ CleanStart(1)
    /\ variant = "exec"
    /\ Opt(1).n_runs = MaxRuns
    /\ Opt(1).n_files = MaxFiles
    /\ cnt[1].create = MaxRuns
    /\ cnt[1].analyze = 1


(***************************************************************************)
(* SpecRerun: the same job (same options) is executed up to MaxPasses      *)
(* times on a directory that is empty or that earlier passes left with     *)
(* one run holding some shards; any pass may be cut short by a stop        *)
(* request or an engine failure.                                           *)
(***************************************************************************)
LeftRuns(k, sh) ==
    [r \in RunIdx |-> IF r < k THEN [NoRun EXCEPT !.dir = TRUE, !.ckpt = TRUE,
                                                  !.shards = sh[r]]
                      ELSE NoRun]

InitRerun ==
    /\ variant \in {"exec", "manager"}
    /\ lock = NoEntries
    /\ \E k \in {0, 1}, sh \in [RunIdx -> 0..MaxFiles] :
         /\ \A r \in RunIdx : r >= k => sh[r] = 0
         /\ IF k = 0
            THEN cfgFile = NoEntries /\ runs = NoEntries
            ELSE /\ cfgFile = Put(NoEntries, DirTable["symmetric", DefaultConfig],
                                  [exists |-> TRUE, text |-> TomlDump(DefaultConfig)])
                 /\ runs = Put(NoEntries, DirTable["symmetric", DefaultConfig],
                               LeftRuns(k, sh))
         /\ ep = [p \in Procs |->
                    IF p = 1 THEN [NoEp EXCEPT !.on = TRUE, !.runs0 = k, !.shards0 = sh]
                    ELSE NoEp]
    /\ pc = [p \in Procs |-> "idle"]
    /\ job = [p \in Procs |-> NoJob]
    /\ site = [p \in Procs |-> 0]
    /\ loc = [p \in Procs |-> NoLoc]
    /\ stop = [p \in Procs |-> FALSE]
    /\ outcome = [p \in Procs |-> "none"]
    /\ cnt = [p \in Procs |-> NoCnt]
    /\ file0 = [p \in Procs |-> NoFile]
    /\ idem = [p \in Procs |-> FALSE]
    /\ snap = [p \in Procs |-> NoSnap]
    /\ AggIdle

RerunStart ==
    /\ ep[1].passes < MaxPasses
    /\ \E opt \in IF variant = "manager" THEN RunnerOpts ELSE RunOpts :
         /\ pc[1] = "done" => opt = Opt(1)
         /\ JobStart(1, "symmetric", DefaultConfig, opt)

RerunStep == UtilsStep(1)

NextRerun == RerunStart \/ RerunStep \/ Signal

SpecRerun == InitRerun /\ [][NextRerun]_vars

RECURSIVE SumBelow(_, _)
SumBelow(f, n) == IF n = 0 THEN 0 ELSE f[n - 1] + SumBelow(f, n - 1)

\* what one uninterrupted pass of the job has to create and to resume
NeedCreate == Max0(Opt(1).n_runs - ep[1].runs0)

NeedResume(r) ==
    IF r < Opt(1).n_runs THEN Max0(Opt(1).n_files - ep[1].shards0[r]) ELSE 0

\* C10 as stated: for every value of the options, clean included, the passes
\* of a rerun series never remove a run or shard, and when the series ends
\* FINISHED the create and resume invocations of all its passes are those
\* of one uninterrupted pass.
C10_ResumesWhereLeftOff ==
    (ep[1].on /\ pc[1] # "idle")
    => /\ NumRuns(RunsOf(SimDir(1))) >= ep[1].runs0
       /\ \A r \in RunIdx : RunsOf(SimDir(1))[r].shards >= ep[1].shards0[r]
       /\ Finished(1)
          => ep[1].create + SumBelow(ep[1].resume, MaxRuns) + ep[1].failed
               = NeedCreate + SumBelow([r \in RunIdx |-> NeedResume(r)], MaxRuns)

\* C10, amended: when the options do not request clean, the disk holds at
\* every moment what it held at first plus the result of every create and
\* resume that exited 0, no such invocation is issued beyond what one
\* uninterrupted pass needs, and when the series ends FINISHED the
\* invocations that exited 0 are exactly those of one uninterrupted pass
\* (an invocation that exited non-zero is issued again).
C10_RerunCompletes ==
    (ep[1].on /\ pc[1] # "idle" /\ ~WantsClean(1))
    => /\ NumRuns(RunsOf(SimDir(1))) = ep[1].runs0 + ep[1].create
       /\ ep[1].create <= NeedCreate
       /\ \A r \in RunIdx :
            /\ RunsOf(SimDir(1))[r].shards = ep[1].shards0[r] + ep[1].resume[r]
            /\ ep[1].resume[r] <= NeedResume(r)
       /\ Finished(1)
          => /\ ep[1].create = NeedCreate
             /\ \A r \in RunIdx : ep[1].resume[r] = NeedResume(r)

C10_Witness ==
    /\ ep[1].on
    /\ ep[1].passes = 2
    /\ Finished(1)
    /\ ~WantsClean(1)
    /\ ep[1].runs0 = 0
    /\ ep[1].failed = 0
    /\ ep[1].create = MaxRuns
    /\ cnt[1].create = 0
    /\ ep[1].resume[0] = MaxFiles
    /\ cnt[1].resume[0] = MaxFiles - 1


(***************************************************************************)
(* SpecAgg: the end of execute_sim_jobs (utils/exec.py, utils/manager.py)  *)
(* and of exec_sim_job (mutare_tools/exec.py) for every list of outcomes   *)
(* the pool can return, and the exit status the interpreter then gives     *)
(* the process.                                                            *)
(***************************************************************************)
MaxJobs == 3

JobResult == {"FINISHED", "STOPPED", "FAILED"}

RunResult == {"FINISHED", "PAUSED", "FAILED"}

Raise(msg) == [kind |-> "raise", arg |-> 0, msg |-> msg, code |-> -1]

SysExit(n) == [kind |-> "sys_exit", arg |-> n, msg |-> "", code |-> -1]

Return == [kind |-> "return", arg |-> 0, msg |-> "", code |-> -1]

ExecuteSimJobsStoppedFirst(v, results) ==
    IF Count(results, "STOPPED") > 0
    THEN (IF v = "manager" THEN SysExit(0) ELSE Raise("some job was stopped"))
    ELSE IF Count(results, "FAILED") > 0
    THEN (IF v = "manager" THEN SysExit(1) ELSE Raise("some job failed"))
    ELSE Return

\* if job_results.count(JobResult.FAILED) > 0: ...
\* if job_results.count(JobResult.STOPPED) > 0: ...
ExecuteSimJobsEnd(v, results) ==
    IF Count(results, "FAILED") > 0
    THEN (IF v = "manager" THEN SysExit(1) ELSE Raise("some job failed"))
    ELSE IF Count(results, "STOPPED") > 0
    THEN (IF v = "manager" THEN SysExit(0) ELSE Raise("some job was stopped"))
    ELSE Return

ExecSimJobEnd(results) ==
    CASE RunDecision(results) = "FAILED" -> Raise("some run failed")
      [] RunDecision(results) = "PAUSED" -> Raise("some run was paused")
      [] OTHER -> Return

\* The script's exit status: 1 for an exception nobody catches, the argument
\* of sys.exit, 0 when the script runs to its end.
ExitCode(e) ==
    CASE e.kind = "raise" -> 1
      [] e.kind = "sys_exit" -> e.arg
      [] OTHER -> 0

ResultLists(results) == UNION { [1..n -> results] : n \in 0..MaxJobs }

InitAgg ==
    /\ variant \in {"exec", "manager", "tools"}
    /\ DiskEmpty
    /\ ProcsIdle
    /\ job_results \in ResultLists(IF variant = "tools" THEN RunResult ELSE JobResult)
    /\ exit_result = NoExit
    /\ ExtIdle

\* the pool has returned job_results; the function ends
PoolFinished ==
    /\ exit_result.kind = "none"
    /\ exit_result' = IF variant = "tools" THEN ExecSimJobEnd(job_results)
                      ELSE ExecuteSimJobsEnd(variant, job_results)
    /\ UNCHANGED <<variant, diskVars, pc, job, site, passVars, stop, outcome,
                   file0, job_results, extVars>>

ProcessExit ==
    /\ exit_result.kind # "none"
    /\ exit_result.code = -1
    /\ exit_result' = [exit_result EXCEPT !.code = ExitCode(exit_result)]
    /\ UNCHANGED <<variant, diskVars, pc, job, site, passVars, stop, outcome,
                   file0, job_results, extVars>>

NextAgg == PoolFinished \/ ProcessExit

SpecAgg == InitAgg /\ [][NextAgg]_vars

HasFailed(results) == \E i \in DOMAIN results : results[i] = "FAILED"

HasStopped(results) == \E i \in DOMAIN results : results[i] \in {"STOPPED", "PAUSED"}

HardFailure(e) ==
    \/ e.kind = "raise" /\ e.msg \in {"some job failed", "some run failed"}
    \/ e.kind = "sys_exit" /\ e.arg = 1

GracefulStop(e) ==
    \/ e.kind = "raise" /\ e.msg \in {"some job was stopped", "some run was paused"}
    \/ e.kind = "sys_exit" /\ e.arg = 0

\* C4: for every list of outcomes, in any order, the function ends in hard
\* failure exactly when some outcome is FAILED, in graceful stop exactly when
\* none is FAILED and some is STOPPED (PAUSED), and returns otherwise.
C4_OutcomeAggregation ==
    exit_result.kind # "none"
    => /\ HardFailure(exit_result) <=> HasFailed(job_results)
       /\ GracefulStop(exit_result)
            <=> (~HasFailed(job_results) /\ HasStopped(job_results))
       /\ exit_result.kind = "return"
            <=> (~HasFailed(job_results) /\ ~HasStopped(job_results))

C4_Witness ==
    /\ exit_result.kind # "none"
    /\ variant = "exec"
    /\ Len(job_results) = MaxJobs
    /\ job_results[1] = "STOPPED"
    /\ job_results[MaxJobs] = "FAILED"
    /\ HardFailure(exit_result)

Decision(results) ==
    IF HasFailed(results) THEN "failure"
    ELSE IF HasStopped(results) THEN "stopped"
    ELSE "success"

\* C5: the exit status of the process that called execute_sim_jobs differs
\* from the exit status of every call whose outcomes lead to another of the
\* three decisions (all finished, some stopped and none failed, some failed).
C5_ExitStatusDistinct ==
    (exit_result.code # -1 /\ variant \in {"exec", "manager"})
    => \A other \in ResultLists(JobResult) :
          Decision(other) # Decision(job_results)
          => ExitCode(ExecuteSimJobsEnd(variant, other)) # exit_result.code


(***************************************************************************)
(* SpecLock: two orchestrator processes execute jobs that resolve to the   *)
(* same job directory, their steps interleaved in every order.             *)
(***************************************************************************)
LockOpts ==
    [n_runs : {1}, n_files : {1},
     clean : IF variant = "manager" THEN BOOLEAN ELSE {FALSE}, analyze : {FALSE}]

InitLock ==
    /\ variant \in {"exec", "manager"}
    /\ DiskEmpty
    /\ ProcsIdle
    /\ AggIdle

StartEither ==
    \E p \in Procs, opt \in LockOpts : JobStart(p, "symmetric", DefaultConfig, opt)

StepEither == \E p \in Procs : UtilsStep(p)

SignalEither == \E p \in Procs : RequestStop(p)

NextLock == StartEither \/ StepEither \/ SignalEither

SpecLock == InitLock /\ [][NextLock]_vars

\* the process is inside the with block, past the flock call
InsideLock(p) ==
    \/ pc[p] \in {"save_open", "save_write", "run_sim", "count_runs",
                  "create_loop", "for_run", "resume_loop", "analyze"}
    \/ pc[p] \in {"hash_check", "hash_load", "hash_open", "hash_write"} /\ site[p] = 3

\* No two processes are past the flock call of the same job directory, and a
\* process past it holds the lock.
LockExcludes ==
    /\ \A p \in Procs : InsideLock(p) => HolderOf(SimDir(p)) = p
    /\ \A p, q \in Procs :
          (p # q /\ SimDir(p) = SimDir(q)) => ~(InsideLock(p) /\ InsideLock(q))

\* A process the lock was refused to has returned FAILED at once, having
\* spawned no engine invocation.
RefusedReturnsAtOnce ==
    \A p \in Procs :
        cnt[p].lock_refused
        => /\ pc[p] = "done"
           /\ outcome[p] = "FAILED"
           /\ NoInvocations(p)

\* C2: of two processes executing a job of the same directory at the same
\* time, never two are inside run_sim, and the one the lock is refused to
\* returns at once, has spawned no engine invocation and has written nothing
\* into the job directory.
C2_LoserLeavesDirUntouched ==
    /\ LockExcludes
    /\ RefusedReturnsAtOnce
    /\ \A p \in Procs : cnt[p].lock_refused => cnt[p].cfg_writes = 0

(***************************************************************************)
(* SpecCancel: one process calls run_bin (utils/exec.py) or exec_bin       *)
(* (mutare_tools/exec.py) up to MaxCalls times; the signal may be          *)
(* delivered at any moment, any number of times: between two calls,        *)
(* between the test of the flag and the spawn, while the engine runs.      *)
(***************************************************************************)
MaxCalls == 3

otherVars == <<variant, diskVars, pc, job, site, passVars, outcome, file0,
               job_results, exit_result, dispatch, objVars>>

\* a caller (run_sim, exec_sim_run) calls run_bin / exec_bin
RunBinCall(p) ==
    /\ invoker[p].at = "out"
    /\ invoker[p].calls < MaxCalls
    /\ invoker' = [invoker EXCEPT ![p] =
                     [@ EXCEPT !.at = "check", !.calls = @ + 1,
                               !.late = stop[p],
                               !.after_signal = parent.stop_requested]]
    /\ UNCHANGED <<otherVars, stop, parent>>

StopNeverObserved(p) == FALSE

\* if stop_requested: / if pause_requested:
StopObserved(p) == stop[p]

\* raise StopRequested() / raise PauseRequested(), or go on to the spawn
RunBinCheck(p) ==
    /\ invoker[p].at = "check"
    /\ invoker' = [invoker EXCEPT ![p] =
                     IF StopObserved(p)
                     THEN [@ EXCEPT !.at = "out", !.raised = @ + 1]
                     ELSE [@ EXCEPT !.at = "spawn"]]
    /\ UNCHANGED <<otherVars, stop, parent>>

\* subprocess.run(args, ..., check=True) starts the engine
RunBinSpawn(p) ==
    /\ invoker[p].at = "spawn"
    /\ invoker' = [invoker EXCEPT ![p] =
                     [@ EXCEPT !.at = "wait", !.child = "running",
                               !.spawns = @ + 1]]
    /\ UNCHANGED <<otherVars, stop, parent>>

\* the engine exits, with status 0 or not
EngineExit(p) ==
    /\ invoker[p].child = "running"
    /\ \E status \in {"exit_0", "exit_1"} :
         invoker' = [invoker EXCEPT ![p] = [@ EXCEPT !.child = status]]
    /\ UNCHANGED <<otherVars, stop, parent>>

\* subprocess.run returns (or raises CalledProcessError) once the child has
\* exited
RunBinWait(p) ==
    /\ invoker[p].at = "wait"
    /\ invoker[p].child \in {"exit_0", "exit_1"}
    /\ invoker' = [invoker EXCEPT ![p] =
                     [@ EXCEPT !.at = "out", !.child = "none",
                               !.waited = @ \/ invoker[p].in_flight]]
    /\ UNCHANGED <<otherVars, stop, parent>>

\* request_stop / request_pause, run by the interpreter between two
\* bytecodes of the main thread, or while it waits for the child
RequestStopSignal(p) ==
    /\ stop' = [stop EXCEPT ![p] = TRUE]
    /\ invoker' = [invoker EXCEPT ![p] =
                     [@ EXCEPT !.signalled = TRUE,
                               !.in_flight = @ \/ invoker[p].child = "running"]]
    /\ UNCHANGED <<otherVars, parent>>

InvokerStep(p) ==
    \/ RunBinCall(p) \/ RunBinCheck(p) \/ RunBinSpawn(p)
    \/ EngineExit(p) \/ RunBinWait(p)

InitCancel ==
    /\ variant \in {"exec", "tools"}
    /\ DiskEmpty
    /\ ProcsIdle
    /\ AggIdle

CancelStep == InvokerStep(1)

CancelSignal == RequestStopSignal(1)

NextCancel == CancelStep \/ CancelSignal

SpecCancel == InitCancel /\ [][NextCancel]_vars

\* C11: once the handler has run in a process the flag stays true; a call of
\* run_bin / exec_bin made when the flag is true never reaches the spawn; and
\* the process leaves subprocess.run only when the engine child has exited,
\* so a child that ran when the flag was set is waited for.
C11_InvocationGranularity ==
    \A p \in Procs :
        /\ invoker[p].signalled => stop[p]
        /\ invoker[p].late => invoker[p].at \in {"check", "out"}
        /\ invoker[p].child # "none" => invoker[p].at = "wait"
        /\ (invoker[p].in_flight /\ invoker[p].at # "wait") => invoker[p].waited

C11_Witness ==
    /\ invoker[1].signalled
    /\ invoker[1].in_flight
    /\ invoker[1].waited
    /\ invoker[1].late
    /\ invoker[1].at = "out"
    /\ invoker[1].raised > 0
    /\ invoker[1].spawns = 1

(***************************************************************************)
(* SpecPoolSignal: execute_sim_jobs installs the handler and starts the    *)
(* pool; each worker is a process of its own, with its own copy of the     *)
(* module global stop_requested (the parent's value at the fork, or False  *)
(* when the worker imports the module afresh).  The signal is delivered    *)
(* to the parent, to a worker, or to both.                                 *)
(***************************************************************************)
\* with mp.Pool(processes=...) as pool:
StartPool ==
    /\ parent.pool = "none"
    /\ parent' = [parent EXCEPT !.pool = "forked"]
    /\ \E inherited \in {parent.stop_requested, FALSE} :
         stop' = [p \in Procs |-> inherited]
    /\ UNCHANGED <<otherVars, invoker>>

\* request_stop run in the process that called execute_sim_jobs
ParentSignal ==
    /\ parent' = [parent EXCEPT !.stop_requested = TRUE]
    /\ UNCHANGED <<otherVars, stop, invoker>>

WorkerStep == parent.pool = "forked" /\ \E p \in Procs : InvokerStep(p)

WorkerSignal == parent.pool = "forked" /\ \E p \in Procs : RequestStopSignal(p)

NextPoolSignal == StartPool \/ ParentSignal \/ WorkerStep \/ WorkerSignal

SpecPoolSignal == InitCancel /\ [][NextPoolSignal]_vars

\* C12: after the signal has been delivered to the process that called
\* execute_sim_jobs, no worker of the pool lets a call of run_bin made from
\* then on reach the spawn of the engine.
C12_EveryWorkerObserves ==
    \A p \in Procs :
        invoker[p].after_signal => invoker[p].at \in {"check", "out"}

\* C13: execute_sim_job always ends by returning one of the three outcomes:
\* FINISHED exactly when its run_sim returned without error, STOPPED only
\* when the stop request was observed, FAILED when the lock was refused.
C13_TypedOutcome ==
    \A p \in Procs :
        pc[p] = "done"
        => /\ outcome[p] \in JobResult
           /\ outcome[p] = "FINISHED" <=> cnt[p].returned
           /\ outcome[p] = "STOPPED" => stop[p]
           /\ cnt[p].lock_refused => outcome[p] = "FAILED"

(***************************************************************************)
(* SpecRelease: two worker processes execute job after job, of one job     *)
(* directory or of two, in utils/exec.py, utils/manager.py and             *)
(* mutare_tools/exec.py;                                                   *)
(* any job may be cut short by an engine failure, a refused lock or a      *)
(* configuration mismatch, those of worker 1 by a stop request too.        *)
(***************************************************************************)
OtherConfig ==
    << <<"model", << <<"n_phe", 2>>, <<"prob_mut", 0>> >> >>,
       <<"init", << <<"n_agents", 2>> >> >> >>

InitRelease ==
    /\ variant \in {"exec", "manager", "tools"}
    /\ DiskEmpty
    /\ ProcsIdle
    /\ AggIdle

\* the jobs handed to worker 1 are of either directory, those of worker 2 of
\* the first
JobsOf(p) == IF p = 1 THEN {DefaultConfig, OtherConfig} ELSE {DefaultConfig}

\* worker 1 takes job after job, worker 2 one job
StartJob ==
    \E p \in Procs, opt \in LockOpts :
        /\ p = 2 => pc[p] = "idle"
        /\ \E c \in JobsOf(p) : JobStart(p, "symmetric", c, opt)

StepJob == \E p \in Procs : JobStep(p)

NextRelease == StartJob \/ StepJob \/ Signal

SpecRelease == InitRelease /\ [][NextRelease]_vars

\* the process is inside exec_sim_run for run r of the job directory d
InsideRun(p, d, r) ==
    /\ pc[p] \in {"t_ckpt", "t_count", "t_resume", "t_analyze"}
    /\ SimDir(p) = d
    /\ loc[p].run_idx = r

\* C14: the flock on a job's .lock (utils/exec.py) or on a run's .lock
\* (exec_sim_run) is held only by a process that is inside the with block
\* of that very job or run: when execute_sim_job / exec_sim_run has
\* returned, with whatever outcome, the lock is free for the next caller,
\* and no process holds it while it executes another job.
C14_LockReleased ==
    /\ \A d \in DOMAIN lock :
          lock[d] # 0 => (InsideLock(lock[d]) /\ SimDir(lock[d]) = d)
    /\ \A d \in DOMAIN runs : \A r \in RunIdx :
          runs[d][r].lock # 0 => InsideRun(runs[d][r].lock, d, r)

\* a job that failed under the lock has released it and the other process
\* has taken it
C14_Witness ==
    /\ variant = "exec"
    /\ pc[1] = "done"
    /\ outcome[1] = "FAILED"
    /\ ~cnt[1].lock_refused
    /\ cnt[1].create = 1
    /\ SimDir(2) = SimDir(1)
    /\ InsideLock(2)
    /\ HolderOf(SimDir(1)) = 2

(***************************************************************************)
(* SpecDispatch: a list of up to MaxJobs jobs is submitted to              *)
(* execute_sim_jobs (utils/exec.py, utils/manager.py: pool.map over the    *)
(* jobs) or to exec_sim_jobs (mutare_tools/exec.py: a for loop over the    *)
(* jobs, each job a pool.map over its runs).  A job is given by what its   *)
(* execution yields: the JobResult execute_sim_job returns, or the         *)
(* RunResults of its runs.                                                 *)
(***************************************************************************)
JobYields ==
    IF variant = "tools" THEN [1..MaxRuns -> RunResult] ELSE JobResult

InitDispatch ==
    /\ variant \in {"exec", "manager", "tools"}
    /\ DiskEmpty
    /\ ProcsIdle
    /\ InvokerIdle
    /\ ObjIdle
    /\ job_results = <<>>
    /\ exit_result = NoExit
    /\ \E jobs \in ResultLists(JobYields) :
         dispatch = [NoDispatch EXCEPT !.sim_jobs = jobs]

dispatchFrame == <<variant, diskVars, pc, job, site, passVars, stop, outcome,
                   file0, invoker, parent, objVars>>

\* pool.map: a worker takes a job not yet executed and runs execute_sim_job
WorkerExecutes ==
    /\ variant # "tools"
    /\ exit_result.kind = "none"
    /\ \E i \in DOMAIN dispatch.sim_jobs \ dispatch.executed :
         dispatch' = [dispatch EXCEPT !.executed = @ \cup {i}]
    /\ UNCHANGED <<dispatchFrame, job_results, exit_result>>

\* job_results = pool.map(execute_sim_job, sim_jobs) returns
PoolMapReturns ==
    /\ variant # "tools"
    /\ ~dispatch.collected
    /\ dispatch.executed = DOMAIN dispatch.sim_jobs
    /\ job_results' = dispatch.sim_jobs
    /\ dispatch' = [dispatch EXCEPT !.collected = TRUE]
    /\ UNCHANGED <<dispatchFrame, exit_result>>

\* the two tests of job_results that end execute_sim_jobs
Escalate ==
    /\ variant # "tools"
    /\ dispatch.collected
    /\ PoolFinished

\* for sim_job in sim_jobs: exec_sim_job(sim_job); a RuntimeError raised by
\* exec_sim_job leaves the loop and exec_sim_jobs
ExecSimJobsLoop ==
    /\ variant = "tools"
    /\ exit_result.kind = "none"
    /\ LET i == Cardinality(dispatch.executed) + 1
       IN IF i \in DOMAIN dispatch.sim_jobs
          THEN /\ dispatch' = [dispatch EXCEPT !.executed = @ \cup {i}]
               /\ job_results' = dispatch.sim_jobs[i]
               /\ exit_result' =
                    IF ExecSimJobEnd(dispatch.sim_jobs[i]).kind = "raise"
                    THEN ExecSimJobEnd(dispatch.sim_jobs[i]) ELSE exit_result
          ELSE /\ exit_result' = Return
               /\ UNCHANGED <<dispatch, job_results>>
    /\ UNCHANGED dispatchFrame

NextDispatch == WorkerExecutes \/ PoolMapReturns \/ Escalate \/ ExecSimJobsLoop

SpecDispatch == InitDispatch /\ [][NextDispatch]_vars

\* C15: when execute_sim_jobs / exec_sim_jobs ends, by returning or by
\* raising the process-level failure, every job of the submitted list has
\* been executed to an outcome.
C15_SiblingIsolation ==
    exit_result.kind # "none" => dispatch.executed = DOMAIN dispatch.sim_jobs

(***************************************************************************)
(* SpecHashRace: two processes call hash_sim_dir at the same time with     *)
(* the same base_dir and the same configuration (equal as dicts), the job  *)
(* directory not existing yet; their steps interleave in every order.      *)
(***************************************************************************)
\* hash_sim_dir(base_dir, config) called whatever the other process does
HashCallAnytime(p, base_dir, config) ==
    /\ pc[p] = "idle"
    /\ job' = [job EXCEPT ![p] = [base_dir |-> base_dir, config |-> config,
                                  run_options |-> NoOpts]]
    /\ site' = [site EXCEPT ![p] = 0]
    /\ file0' = [file0 EXCEPT ![p] = CfgOf(DirTable[base_dir, config])]
    /\ pc' = [pc EXCEPT ![p] = "hash_check"]
    /\ UNCHANGED <<variant, diskVars, passVars, stop, outcome, aggVars>>

\* the configuration of the other process, when it has made its call
SameConfigAs(q, c) == pc[q] # "idle" => DictOf(job[q].config) = DictOf(c)

RedundantCall ==
    \E p \in Procs, c \in Configs :
        /\ \A q \in Procs \ {p} : SameConfigAs(q, c)
        /\ HashCallAnytime(p, "symmetric", c)

NextHashRace == RedundantCall \/ HashSteps

InitHashRace ==
    /\ variant = "exec"
    /\ DiskEmpty
    /\ ProcsIdle
    /\ AggIdle

SpecHashRace == InitHashRace /\ [][NextHashRace]_vars

\* C16: every one of the concurrent calls returns (none raises the
\* config-mismatch error), all return the same directory, and once all have
\* returned the persisted configuration equals the input.
C16_RedundantCallsSafe ==
    /\ \A p \in Procs : pc[p] = "hash_done" => outcome[p] = "returned"
    /\ \A p, q \in Procs :
          (pc[p] = "hash_done" /\ pc[q] = "hash_done") => SimDir(p) = SimDir(q)
    /\ (\A p \in Procs : pc[p] = "hash_done")
          => \A p \in Procs :
                TomlLoad(CfgOf(SimDir(p)).text) = DictOf(job[p].config)

(***************************************************************************)
(* Job descriptors.  Python objects live in a heap and are held by         *)
(* reference: a config dict refers to its section dicts, a SimJob to its   *)
(* config and its RunOptions.  Of the keys of a configuration the model    *)
(* keeps model.prob_mut, init.n_agents and init.strat_phe.                 *)
(***************************************************************************)
NoObj == [kind |-> "none", model |-> 0, init |-> 0, prob_mut |-> 0,
          n_agents |-> 0, strat_phe |-> 0, n_runs |-> 0, n_files |-> 0]

ModelDict(m) == [NoObj EXCEPT !.kind = "model", !.prob_mut = m]

InitDict(a) == [NoObj EXCEPT !.kind = "init", !.n_agents = a]

ConfigDict(model, init) == [NoObj EXCEPT !.kind = "config", !.model = model,
                                         !.init = init]

RunOptionsObj(r, f) == [NoObj EXCEPT !.kind = "options", !.n_runs = r, !.n_files = f]

\* copy.deepcopy: a dict is copied with the dicts it refers to
DeepCopy(h, ref) ==
    IF h[ref].kind = "config"
    THEN [heap |-> h \o << h[h[ref].model], h[h[ref].init],
                           ConfigDict(Len(h) + 1, Len(h) + 2) >>,
          ref |-> Len(h) + 3]
    ELSE [heap |-> Append(h, h[ref]), ref |-> Len(h) + 1]

SameObject(h, ref) == [heap |-> h, ref |-> ref]

\* SimJob.__post_init__: self.config = deepcopy(self.config), and the same
\* for self.run_options
PostInit(h, ref) == DeepCopy(h, ref)

\* the value of a config dict, of a RunOptions
ValueOf(h, ref) == [prob_mut |-> h[h[ref].model].prob_mut,
                    n_agents |-> h[h[ref].init].n_agents]

OptionsOf(h, ref) == [n_runs |-> h[ref].n_runs, n_files |-> h[ref].n_files]

\* config["model"]["prob_mut"] = m, config["init"]["n_agents"] = a
SetProbMut(h, ref, m) == [h EXCEPT ![h[ref].model] = [@ EXCEPT !.prob_mut = m]]

SetNAgents(h, ref, a) == [h EXCEPT ![h[ref].init] = [@ EXCEPT !.n_agents = a]]

\* config["init"]["strat_phe"] = [strat_phe_0, 1 - strat_phe_0]; the init job
\* has strat_phe 0, the sweep values are 1, 2, ...
SetStratPhe(h, ref, s) == [h EXCEPT ![h[ref].init] = [@ EXCEPT !.strat_phe = s]]

\* the dict as hash_sim_dir receives it
ToConfig(v) ==
    << <<"model", << <<"n_phe", 2>>, <<"prob_mut", v.prob_mut>> >> >>,
       <<"init", << <<"n_agents", v.n_agents>> >> >> >>

\* SimJob.sim_dir: hash_sim_dir(self.base_dir, self.config)
JobSimDir(h, j) == DirTable[j.base_dir, ToConfig(ValueOf(h, j.config))]

\* SimJob(base_dir, config, run_options); mutare_tools passes n_runs and
\* n_files as ints.  built records the values at construction.
NewSimJob(h, base_dir, config, run_options) ==
    LET c == PostInit(h, config)
        o == IF variant = "tools" THEN DeepCopy(c.heap, run_options)
             ELSE PostInit(c.heap, run_options)
    IN [heap |-> o.heap,
        job |-> [base_dir |-> base_dir, config |-> c.ref, run_options |-> o.ref,
                 built |-> [config |-> ValueOf(h, config),
                            run_options |-> OptionsOf(h, run_options),
                            sim_dir |-> DirTable[base_dir, ToConfig(ValueOf(h, config))]]]]

jobsFrame == <<variant, diskVars, pc, job, site, passVars, stop, outcome, file0,
               job_results, exit_result, invoker, parent, dispatch>>

\* frame and heap after sim_jobs.append(SimJob(base_dir, config, ...))
Appended(h, f, nextPc) ==
    LET n == NewSimJob(h, "symmetric", f.config, f.sim_jobs[1].run_options)
    IN /\ heap' = n.heap
       /\ frame' = [f EXCEPT !.sim_jobs = Append(@, n.job), !.pc = nextPc]

InitValue == ValueOf(heap, frame.sim_jobs[1].config)

\* the script builds init_sim_job from the objects it holds
CallerMakesJob ==
    /\ frame.pc = "idle"
    /\ LET n == NewSimJob(heap, "symmetric", frame.caller_config,
                          frame.caller_options)
       IN /\ heap' = n.heap
          /\ frame' = [frame EXCEPT !.sim_jobs = <<n.job>>, !.pc = "made"]
    /\ UNCHANGED jobsFrame

\* create_sim_jobs(...): sim_jobs = [init_sim_job]; n_phe == 2
CreateSimJobs ==
    /\ frame.pc = "made"
    /\ frame' = [frame EXCEPT !.pc = "strat_copy", !.value = 1]
    /\ UNCHANGED <<jobsFrame, heap>>

\* for strat_phe_0 in ...: config = deepcopy(init_sim_job.config);
\* sim_jobs.append(SimJob(base_dir, config, ...))
StratCopy ==
    /\ frame.pc = "strat_copy"
    /\ IF frame.value < MaxVal
       THEN LET c == DeepCopy(heap, frame.sim_jobs[1].config)
            IN Appended(SetStratPhe(c.heap, c.ref, frame.value),
                        [frame EXCEPT !.config = c.ref], "strat_mut")
       ELSE /\ frame' = [frame EXCEPT !.pc = "prob_loop", !.value = 0]
            /\ heap' = heap
    /\ UNCHANGED jobsFrame

\* config["model"]["prob_mut"] = 0.0; sim_jobs.append(SimJob(...))
StratMut ==
    /\ frame.pc = "strat_mut"
    /\ IF variant = "tools"
       THEN Appended(SetProbMut(heap, frame.config, 0),
                     [frame EXCEPT !.inner = 1], "fixed_loop")
       ELSE Appended(SetProbMut(heap, frame.config, 0),
                     [frame EXCEPT !.value = @ + 1], "strat_copy")
    /\ UNCHANGED jobsFrame

\* mutare_tools: for n_agents_i in fixed_n_agents_i_values:
\*     config["init"]["n_agents"] = n_agents_i; sim_jobs.append(SimJob(...))
FixedLoop ==
    /\ frame.pc = "fixed_loop"
    /\ IF frame.inner > MaxVal
       THEN /\ frame' = [frame EXCEPT !.pc = "strat_copy", !.value = @ + 1]
            /\ heap' = heap
       ELSE IF frame.inner = InitValue.n_agents
       THEN /\ frame' = [frame EXCEPT !.inner = @ + 1]
            /\ heap' = heap
       ELSE Appended(SetNAgents(heap, frame.config, frame.inner),
                     [frame EXCEPT !.inner = @ + 1], "fixed_loop")
    /\ UNCHANGED jobsFrame

\* for prob_mut in prob_mut_values: config = deepcopy(init_sim_job.config);
\*     config["model"]["prob_mut"] = prob_mut; sim_jobs.append(SimJob(...))
ProbLoop ==
    /\ frame.pc = "prob_loop"
    /\ IF frame.value > MaxVal - 1
       THEN /\ frame' = [frame EXCEPT !.pc = "agents_loop", !.value = 1]
            /\ heap' = heap
       ELSE IF frame.value = InitValue.prob_mut
       THEN /\ frame' = [frame EXCEPT !.value = @ + 1]
            /\ heap' = heap
       ELSE LET c == DeepCopy(heap, frame.sim_jobs[1].config)
            IN Appended(SetProbMut(c.heap, c.ref, frame.value),
                        [frame EXCEPT !.config = c.ref, !.value = @ + 1],
                        "prob_loop")
    /\ UNCHANGED jobsFrame

\* for n_agents in n_agents_values: the same with config["init"]["n_agents"]
AgentsLoop ==
    /\ frame.pc = "agents_loop"
    /\ IF frame.value > MaxVal
       THEN /\ frame' = [frame EXCEPT !.pc = "returned"]
            /\ heap' = heap
       ELSE IF frame.value = InitValue.n_agents
       THEN /\ frame' = [frame EXCEPT !.value = @ + 1]
            /\ heap' = heap
       ELSE LET c == DeepCopy(heap, frame.sim_jobs[1].config)
            IN Appended(SetNAgents(c.heap, c.ref, frame.value),
                        [frame EXCEPT !.config = c.ref, !.value = @ + 1],
                        "agents_loop")
    /\ UNCHANGED jobsFrame

\* the caller changes the config dict or the RunOptions it passed to SimJob
CallerMutates ==
    /\ frame.pc # "idle"
    /\ \/ \E m \in 0..(MaxVal - 1) :
            heap' = SetProbMut(heap, frame.caller_config, m)
       \/ \E a \in 1..MaxVal :
            heap' = SetNAgents(heap, frame.caller_config, a)
       \/ \E f \in 0..MaxFiles :
            heap' = [heap EXCEPT ![frame.caller_options] = [@ EXCEPT !.n_files = f]]
    /\ UNCHANGED <<jobsFrame, frame>>

InitJobs ==
    /\ variant \in {"exec", "tools"}
    /\ DiskEmpty
    /\ ProcsIdle
    /\ InvokerIdle
    /\ job_results = <<>>
    /\ exit_result = NoExit
    /\ dispatch = NoDispatch
    /\ \E m \in 0..(MaxVal - 1), a \in 1..MaxVal :
         heap = << ModelDict(m), InitDict(a), ConfigDict(1, 2),
                   RunOptionsObj(MaxRuns, MaxFiles) >>
    /\ frame = [NoFrame EXCEPT !.caller_config = 3, !.caller_options = 4]

NextJobs ==
    \/ CallerMakesJob \/ CreateSimJobs \/ StratCopy \/ StratMut \/ FixedLoop
    \/ ProbLoop \/ AgentsLoop \/ CallerMutates

SpecJobs == InitJobs /\ [][NextJobs]_vars

\* C17: every SimJob that has been constructed keeps the configuration, the
\* run options and the sim_dir it was constructed with, whatever is done
\* afterwards to the objects that were passed to its constructor.
C17_JobsIsolated ==
    \A i \in DOMAIN frame.sim_jobs :
        LET j == frame.sim_jobs[i]
        IN /\ ValueOf(heap, j.config) = j.built.config
           /\ OptionsOf(heap, j.run_options) = j.built.run_options
           /\ JobSimDir(heap, j) = j.built.sim_dir

C17_Witness ==
    /\ frame.pc = "returned"
    /\ Len(frame.sim_jobs) >= 3
    /\ ValueOf(heap, frame.caller_config) # frame.sim_jobs[1].built.config
    /\ OptionsOf(heap, frame.caller_options) # frame.sim_jobs[1].built.run_options
    /\ frame.sim_jobs[2].built.config # frame.sim_jobs[3].built.config

\* C18: on SpecLock, a job whose lock was refused because another process
\* holds it is not reported as FAILED, and execute_sim_jobs, given the
\* outcome of that job alone, does not end in hard failure.
C18_ContentionIsSoft ==
    \A p \in Procs :
        (cnt[p].lock_refused /\ pc[p] = "done")
        => /\ outcome[p] # "FAILED"
           /\ ~HardFailure(ExecuteSimJobsEnd(variant, <<outcome[p]>>))

\* what a step of a pass may spawn, given the invocations the pass has
\* spawned so far and the runs on disk before the step
OrderedStep ==
    LET before == cnt[1]
        after == cnt'[1]
        onDisk == RunsOf(SimDir(1))
    IN /\ after.create > before.create
          => /\ \A r \in RunIdx : before.resume[r] = 0
             /\ before.analyze = 0
       /\ \A r \in RunIdx :
            after.resume[r] > before.resume[r]
            => /\ onDisk[r].dir
               /\ \A later \in RunIdx : later > r => before.resume[later] = 0
               /\ before.analyze = 0
       /\ after.analyze > before.analyze
          => \A r \in RunIdx :
               r < Opt(1).n_runs
               => /\ onDisk[r].dir
                  /\ onDisk[r].shards >= Opt(1).n_files

\* C19: in a pass of run_sim no create is spawned once a resume or the
\* analyze has been spawned; a resume is spawned only for a run that is on
\* disk, and never after a resume of a higher run index or after the
\* analyze; the analyze is spawned only when every run below n_runs is on
\* disk with at least n_files shards.
C19_PassOrdering == [][OrderedStep]_vars

C19_Witness ==
    /\ Finished(1)
    /\ cnt[1].create >= 1
    /\ cnt[1].resume[0] >= 1
    /\ cnt[1].resume[1] >= 1
    /\ cnt[1].analyze = 1

\* the process is about to call run_bin
Invoking(p) ==
    \/ pc[p] = "run_sim" /\ WantsClean(p)
    \/ pc[p] = "create_loop" /\ MoreRuns(p)
    \/ pc[p] = "resume_loop" /\ MoreFiles(p)
    \/ pc[p] = "analyze" /\ MustAnalyze(p)

\* the engine invocations a pass has spawned
SpawnsOf(c) == c.clean + c.create + SumBelow(c.resume, MaxRuns) + c.analyze

AbortStep ==
    LET exitedNonZero == cnt'[1].exit_nonzero > cnt[1].exit_nonzero
        stopObserved == Invoking(1) /\ stop[1] /\ pc'[1] # pc[1]
    IN /\ exitedNonZero
          => /\ pc'[1] = "done"
             /\ outcome'[1] = "FAILED"
             /\ runs' = runs
       /\ stopObserved
          => /\ pc'[1] = "done"
             /\ outcome'[1] = "STOPPED"
             /\ SpawnsOf(cnt'[1]) = SpawnsOf(cnt[1])
             /\ runs' = runs
       /\ cnt'[1].exit_nonzero > 0 => pc'[1] = "done"
       /\ (pc[1] = "done" /\ pc'[1] = "done")
          => /\ SpawnsOf(cnt'[1]) = SpawnsOf(cnt[1])
             /\ runs' = runs

\* C20: the step in which an engine invocation of run_sim exits non-zero, or
\* in which run_bin finds the stop request, ends the pass with the job
\* FAILED, respectively STOPPED, and leaves the runs and shards on disk as
\* they were; until the job is started again nothing more is spawned and
\* the disk stays as it is.
C20_AbortOnFirstError == [][AbortStep]_vars

C20_Witness ==
    /\ pc[1] = "done"
    /\ outcome[1] = "FAILED"
    /\ cnt[1].exit_nonzero = 1
    /\ cnt[1].create >= 1
    /\ cnt[1].resume[0] >= 1
    /\ NumRuns(RunsOf(SimDir(1))) >= 1
    /\ RunsOf(SimDir(1))[0].shards >= 1

(***************************************************************************)
(* SpecMidStop: a pass of utils/exec.py or utils/runner.py in which the    *)
(* stop request arrives only while the process is inside run_sim.          *)
(***************************************************************************)
InRunSim(p) ==
    pc[p] \in {"run_sim", "count_runs", "create_loop", "for_run", "resume_loop",
               "analyze"}

MidSignal == InRunSim(1) /\ RequestStop(1)

NextMidStop == StartPass \/ UtilsPassStep \/ MidSignal

SpecMidStop == InitUtils /\ [][NextMidStop]_vars

\* C21: a job of utils/exec.py whose process had the stop flag set while it
\* was inside run_sim ends STOPPED.
C21_MidPassStopReported ==
    (variant = "exec" /\ pc[1] = "done" /\ stop[1]) => outcome[1] = "STOPPED"

\* a step that leaves fewer run directories, or fewer shards in a run, is
\* the clean invocation of a pass whose options request clean
MonotoneStep ==
    LET before == RunsOf(SimDir(1))
        after == IF SimDir(1) \in DOMAIN runs' THEN runs'[SimDir(1)] ELSE NoRuns
        shrinks == \/ NumRuns(after) < NumRuns(before)
                   \/ \E r \in RunIdx : after[r].shards < before[r].shards
    IN shrinks => /\ variant = "manager"
                  /\ Opt(1).clean
                  /\ cnt'[1].clean > cnt[1].clean

\* C22: over any sequence of passes on a job directory, finished, stopped or
\* failed, the number of run directories and the number of shards of each
\* run decrease only in the clean invocation of a pass whose run options
\* request clean.
C22_RunsNeverShrink == [][MonotoneStep]_vars

C22_Witness ==
    /\ pc[1] = "done"
    /\ outcome[1] \in {"STOPPED", "FAILED"}
    /\ snap[1].runs0 >= 1
    /\ snap[1].shards0[0] >= 1
    /\ NumRuns(RunsOf(SimDir(1))) > snap[1].runs0

(***************************************************************************)
(* SpecShrink: passes of utils/exec.py and utils/runner.py on one job      *)
(* directory, one after the other, with every n_runs, with n_files 0 or    *)
(* MaxFiles and, for utils/runner.py, with and without clean.              *)
(***************************************************************************)
ShrinkOpts ==
    [n_runs : 0..MaxRuns, n_files : {0, MaxFiles},
     clean : IF variant = "manager" THEN BOOLEAN ELSE {FALSE}, analyze : {FALSE}]

StartShrinkPass ==
    \E opt \in ShrinkOpts : JobStart(1, "symmetric", DefaultConfig, opt)

NextShrink == StartShrinkPass \/ UtilsPassStep \/ Signal

SpecShrink == InitUtils /\ [][NextShrink]_vars

\* the pass has counted the runs (n_runs = len(...glob("run-*"))) or has
\* spawned create, resume or analyze
PastClean(p) ==
    \/ pc[p] \in {"count_runs", "create_loop", "for_run", "resume_loop", "analyze"}
    \/ cnt[p].create > 0
    \/ cnt[p].analyze > 0
    \/ \E r \in RunIdx : cnt[p].resume[r] > 0
    \/ cnt[p].returned

CleanRequested(p) == variant = "manager" /\ Opt(p).clean

CleanOrdered(p) ==
    /\ cnt[p].clean <= 1
    /\ ~CleanRequested(p) => cnt[p].clean = 0
    /\ (CleanRequested(p) /\ PastClean(p)) => cnt[p].clean = 1

\* C23 as stated: clean is never invoked when run_options.clean is not
\* set; when it is set, clean has been invoked once before the runs are
\* counted and before any create, resume or analyze, and every pass that is
\* over has invoked it exactly once.
C23_CleanOncePerPass ==
    /\ CleanOrdered(1)
    /\ (CleanRequested(1) /\ pc[1] = "done") => cnt[1].clean = 1

\* C23 amended: as above, but a pass that is over has invoked clean exactly
\* once unless run_bin found the stop request at the clean call: that pass
\* is STOPPED and has invoked nothing.
C23_CleanOnceUnlessStopped ==
    /\ CleanOrdered(1)
    /\ (CleanRequested(1) /\ pc[1] = "done")
       => \/ cnt[1].clean = 1
          \/ outcome[1] = "STOPPED" /\ NoInvocations(1)

C23_Witness ==
    /\ CleanRequested(1)
    /\ Finished(1)
    /\ cnt[1].clean = 1
    /\ cnt[1].create >= 1
    /\ snap[1].runs0 >= 1

(***************************************************************************)
(* SpecConflict: a list of two jobs with different configurations is       *)
(* executed; the directory of one of them holds a config.toml that is not  *)
(* the job's configuration (the file was cut short, or holds another       *)
(* configuration).  utils: the jobs go to the workers of a pool;           *)
(* mutare_tools: exec_sim_jobs takes them one after the other.             *)
(***************************************************************************)
ConflictConfig(i) == IF i = 1 THEN DefaultConfig ELSE OtherConfig

\* the directory of a job that was executed before with n_runs = n_files = 1
FinishedRuns ==
    [NoRuns EXCEPT ![0] = [NoRun EXCEPT !.dir = TRUE, !.ckpt = TRUE, !.shards = 1,
                                        !.ana = "fresh"]]

InitConflict ==
    /\ variant \in {"exec", "manager", "tools"}
    /\ \E c \in Procs : \E text \in {<<>>, TomlDump(ConflictConfig(3 - c))} :
         LET bad == DirTable["symmetric", ConflictConfig(c)]
             good == DirTable["symmetric", ConflictConfig(3 - c)]
             broken == Put(NoEntries, bad, [exists |-> TRUE, text |-> text])
         IN \/ cfgFile = broken /\ runs = NoEntries
            \/ /\ cfgFile = Put(broken, good,
                                [exists |-> TRUE,
                                 text |-> TomlDump(ConflictConfig(3 - c))])
               /\ runs = Put(NoEntries, good, FinishedRuns)
    /\ lock = NoEntries
    /\ ProcsIdle
    /\ AggIdle

\* exec_sim_jobs: for sim_job in sim_jobs: exec_sim_job(sim_job) reaches a
\* job when exec_sim_job has returned for every job before it
LoopReaches(i) ==
    \A j \in Procs : j < i => (pc[j] = "done" /\ outcome[j] = "FINISHED")

StartConflictJob ==
    /\ exit_result.kind = "none"
    /\ \E i \in Procs, opt \in LockOpts :
         /\ pc[i] = "idle"
         /\ variant = "tools" => LoopReaches(i)
         /\ JobStart(i, "symmetric", ConflictConfig(i), opt)

ConflictStep == \E i \in Procs : JobStep(i)

\* what leaves exec_sim_job for a job that did not finish
RaisedBy(res) ==
    CASE res = "FAILED" -> Raise("some run failed")
      [] res = "PAUSED" -> Raise("some run was paused")
      [] OTHER -> Raise("config mismatch")

\* execute_sim_jobs tests the outcomes the pool collected; exec_sim_jobs
\* ends with the list, or with the exception that left exec_sim_job
ConflictEnd ==
    /\ exit_result.kind = "none"
    /\ IF variant = "tools"
       THEN \/ \E i \in Procs :
                 /\ pc[i] = "done"
                 /\ outcome[i] # "FINISHED"
                 /\ exit_result' = RaisedBy(outcome[i])
                 /\ job_results' = <<outcome[i]>>
            \/ /\ \A i \in Procs : pc[i] = "done" /\ outcome[i] = "FINISHED"
               /\ exit_result' = Return
               /\ job_results' = [i \in 1..2 |-> outcome[i]]
       ELSE /\ \A i \in Procs : pc[i] = "done"
            /\ job_results' = [i \in 1..2 |-> outcome[i]]
            /\ exit_result' = ExecuteSimJobsEnd(variant, [i \in 1..2 |-> outcome[i]])
    /\ UNCHANGED <<variant, diskVars, pc, job, site, passVars, stop, outcome,
                   file0, extVars>>

NextConflict == StartConflictJob \/ ConflictStep \/ Signal \/ ConflictEnd

SpecConflict == InitConflict /\ [][NextConflict]_vars

\* the config.toml of the job's directory is not the job's configuration
Conflicting(i) ==
    /\ CfgOf(DirTable["symmetric", ConflictConfig(i)]).exists
    /\ TomlLoad(CfgOf(DirTable["symmetric", ConflictConfig(i)]).text)
         # DictOf(ConflictConfig(i))

\* C24: when execute_sim_jobs (utils/exec.py) or exec_sim_jobs
\* (mutare_tools/exec.py) has ended, every job of the list has been
\* executed, and the job hash_sim_dir raised config mismatch for has failed
\* without an engine invocation.
C24_ConflictAbortsOneJob ==
    (variant \in {"exec", "tools"} /\ exit_result.kind # "none")
    => \A i \in Procs :
         /\ pc[i] = "done"
         /\ Conflicting(i) => (outcome[i] \in {"FAILED", "RAISED"} /\ NoInvocations(i))

\* a process has opened the config.toml of directory d and not yet written it
BeingWritten(d) ==
    \E p \in Procs : pc[p] \in {"hash_write", "save_write"} /\ SimDir(p) = d

WriteOnceStep ==
    \A d \in DOMAIN cfgFile :
        (cfgFile[d].exists /\ ~BeingWritten(d)) => cfgFile'[d] = cfgFile[d]

\* C25: once the config.toml of a job directory has been written, no step
\* of a later resolution or execution of a job for that directory writes
\* the file again.
C25_ConfigWrittenOnce == [][WriteOnceStep]_vars

(***************************************************************************)
(* SpecRunPool: the engine invocations of the workers of a pool, with the  *)
(* directory each one works in.  utils/exec.py: pool.map hands a worker a  *)
(* job, run_sim runs under the flock of the job directory.                 *)
(* mutare_tools/exec.py: exec_sim_job hands the runs of ONE job to the     *)
(* workers of mp.Pool(processes=N_CORES), exec_sim_run runs under the      *)
(* flock of the run directory.                                             *)
(***************************************************************************)
poolFrame == <<variant, cfgFile, site, idem, snap, ep, cnt, stop, outcome, file0,
               job_results, exit_result, invoker, parent, objVars>>

\* pool.map(execute_sim_job, sim_jobs): the worker gets a job and takes the
\* flock of its directory, or is refused and returns
TakeJob(w) ==
    /\ variant = "exec"
    /\ pc[w] = "idle"
    /\ \E c \in {DefaultConfig, OtherConfig} :
         LET d == DirTable["symmetric", c]
         IN /\ job' = [job EXCEPT ![w] = [NoJob EXCEPT !.config = c]]
            /\ IF HolderOf(d) = 0
               THEN /\ lock' = Put(lock, d, w)
                    /\ pc' = [pc EXCEPT ![w] = "run_sim"]
               ELSE UNCHANGED <<lock, pc>>
    /\ UNCHANGED <<poolFrame, runs, loc, dispatch>>

\* pool.map(exec_sim_run, sim_runs): the worker gets a run of the job that
\* no worker has got yet and takes the flock of the run directory
TakeRun(w) ==
    /\ variant = "tools"
    /\ pc[w] = "idle"
    /\ \E r \in RunIdx \ dispatch.executed :
         LET d == DirTable["symmetric", DefaultConfig]
         IN /\ job' = [job EXCEPT ![w] = NoJob]
            /\ loc' = [loc EXCEPT ![w] = [NoLoc EXCEPT !.run_idx = r]]
            /\ dispatch' = [dispatch EXCEPT !.executed = @ \cup {r}]
            /\ RunsOf(d)[r].lock = 0
            /\ runs' = Put(runs, d, [RunsOf(d) EXCEPT ![r] =
                                        [@ EXCEPT !.dir = TRUE, !.lock = w]])
            /\ pc' = [pc EXCEPT ![w] = "t_ckpt"]
    /\ UNCHANGED <<poolFrame, lock>>

\* run_sim / exec_sim_run calls run_bin / exec_bin; the call runs
WorkerInvokes(w) == pc[w] # "idle" /\ InvokerStep(w)

\* run_sim / exec_sim_run is left, the with block drops the flock
TaskEnds(w) ==
    /\ pc[w] # "idle"
    /\ invoker[w].at = "out"
    /\ pc' = [pc EXCEPT ![w] = "idle"]
    /\ lock' = Release(w)
    /\ runs' = IF variant = "tools"
               THEN Put(runs, SimDir(w), Unlocked(RunsOf(SimDir(w)), loc[w].run_idx, w))
               ELSE runs
    /\ UNCHANGED <<poolFrame, job, loc, dispatch>>

NextRunPool ==
    \E w \in Procs : TakeJob(w) \/ TakeRun(w) \/ WorkerInvokes(w) \/ TaskEnds(w)

SpecRunPool == InitCancel /\ [][NextRunPool]_vars

\* the engine child of worker w is running
InFlight(w) == invoker[w].child = "running"

\* C26: at no time are two engine invocations in flight for the same job
\* directory.
C26_OneInvocationPerJobDir ==
    \A w1, w2 \in Procs :
        (w1 # w2 /\ InFlight(w1) /\ InFlight(w2)) => SimDir(w1) # SimDir(w2)

\* run r of the directory holds at least n_files shards and an analysis
QuotaMet(rs, r, n_files) ==
    /\ rs[r].dir
    /\ rs[r].shards >= n_files
    /\ rs[r].ana # "none"

\* C27: when a job has ended FINISHED, its directory holds at least n_runs
\* runs, and every run below n_runs holds at least n_files shards and an
\* analysis; in mutare_tools the same holds of every run for which
\* exec_sim_run returned FINISHED.
C27_FinishedMeetsQuota ==
    LET onDisk == RunsOf(SimDir(1))
    IN /\ (pc[1] = "done" /\ outcome[1] = "FINISHED")
          => /\ NumRuns(onDisk) >= Opt(1).n_runs
             /\ \A r \in RunIdx :
                  r < Opt(1).n_runs => QuotaMet(onDisk, r, Opt(1).n_files)
       /\ variant = "tools"
          => \A i \in DOMAIN loc[1].run_results :
               loc[1].run_results[i] = "FINISHED"
               => QuotaMet(onDisk, i - 1, Opt(1).n_files)

C27_Witness ==
    /\ pc[1] = "done"
    /\ outcome[1] = "FINISHED"
    /\ snap[1].runs0 >= 1
    /\ Opt(1).n_runs > snap[1].runs0
    /\ Opt(1).n_files > snap[1].shards0[0]


(***************************************************************************)
(* SpecPrune: make_sims (make_sims.py, make_all_sims.py) hands the job     *)
(* list to execute_sim_jobs of utils/exec.py and then prunes base_dir.     *)
(* frame.sim_jobs is the job list, frame.inner the flag prune_sims_dir     *)
(* (make_sims.py prunes unconditionally), frame.value the number of        *)
(* entries removed so far.  base_dir holds the directories of the jobs     *)
(* and directories left by earlier job lists.                              *)
(***************************************************************************)
JobValues == [prob_mut : 0..(MaxVal - 1), n_agents : 1..MaxVal]

LeftOver == { DirTable["symmetric", ToConfig(v)] :
                v \in { x \in JobValues : x.n_agents = 1 } }

\* [sim_job.sim_dir.resolve() for sim_job in sim_jobs]
NormSimDirs ==
    { DirTable[frame.sim_jobs[i].base_dir, frame.sim_jobs[i].config] :
        i \in DOMAIN frame.sim_jobs }

\* sim_jobs[0].base_dir.iterdir() / init_sim_job.base_dir.iterdir()
IterDir == { d \in DOMAIN cfgFile : d[1] = frame.sim_jobs[1].base_dir }

\* rmtree(norm_entry)
RmTree(fs, d) == [x \in DOMAIN fs \ {d} |-> fs[x]]

InitPrune ==
    /\ variant = "exec"
    /\ ProcsIdle
    /\ InvokerIdle
    /\ heap = <<>>
    /\ job_results = <<>>
    /\ exit_result = NoExit
    /\ runs = NoEntries
    /\ lock = NoEntries
    /\ \E n \in Procs : \E vals \in [1..n -> JobValues], res \in [1..n -> JobResult],
          old \in SUBSET LeftOver, script \in {"make_sims", "make_all_sims"},
          prune_sims_dir \in {0, 1} :
         /\ script = "make_sims" => prune_sims_dir = 1
         /\ dispatch = [NoDispatch EXCEPT !.sim_jobs = res]
         /\ frame = [NoFrame EXCEPT
                       !.pc = script, !.inner = prune_sims_dir,
                       !.sim_jobs = [i \in 1..n |->
                                       [base_dir |-> "symmetric",
                                        config |-> ToConfig(vals[i])]]]
         /\ cfgFile = [d \in NormSimDirs \cup old |->
                         [exists |-> TRUE, text |-> <<>>]]

PruneAlways == TRUE

\* the statements after execute_sim_jobs(sim_jobs) run once it has returned
PruneReached == exit_result.kind = "return"

\* for entry in base_dir.iterdir(): if norm_entry not in norm_sim_dirs:
\*     rmtree(norm_entry)
PruneEntry ==
    /\ frame.pc \in {"make_sims", "make_all_sims"}
    /\ PruneReached
    /\ frame.inner = 1
    /\ \E entry \in IterDir \ NormSimDirs :
         /\ cfgFile' = RmTree(cfgFile, entry)
         /\ runs' = RmTree(runs, entry)
         /\ lock' = RmTree(lock, entry)
    /\ frame' = [frame EXCEPT !.value = @ + 1]
    /\ UNCHANGED <<variant, pc, job, site, passVars, stop, outcome, file0,
                   job_results, exit_result, invoker, parent, dispatch, heap>>

\* plot_sim_jobs(sim_jobs): the loop is over, or prune_sims_dir is unset
PlotSimJobs ==
    /\ frame.pc \in {"make_sims", "make_all_sims"}
    /\ exit_result.kind = "return"
    /\ frame.inner = 1 => IterDir \subseteq NormSimDirs
    /\ frame' = [frame EXCEPT !.pc = "plot_sim_jobs"]
    /\ UNCHANGED <<variant, diskVars, pc, job, site, passVars, stop, outcome,
                   file0, job_results, exit_result, invoker, parent, dispatch,
                   heap>>

NextPrune ==
    WorkerExecutes \/ PoolMapReturns \/ Escalate \/ PruneEntry \/ PlotSimJobs

SpecPrune == InitPrune /\ [][NextPrune]_vars

\* a step that removes an entry of base_dir is taken after execute_sim_jobs
\* returned with every job FINISHED, and the entry is no job's directory
PruneSafeStep ==
    \A d \in DOMAIN cfgFile \ DOMAIN cfgFile' :
        /\ exit_result.kind = "return"
        /\ dispatch.collected
        /\ \A i \in DOMAIN job_results : job_results[i] = "FINISHED"
        /\ Len(job_results) = Len(frame.sim_jobs)
        /\ d \notin NormSimDirs
        /\ NormSimDirs \subseteq DOMAIN cfgFile'

\* C28: make_sims removes entries of base_dir only after execute_sim_jobs
\* returned with every job of the list FINISHED, never after a FAILED or
\* STOPPED job, and it never removes the directory of a job of the list it
\* has just executed.
C28_PruneSafe == [][PruneSafeStep]_vars

C28_Witness ==
    /\ frame.pc = "plot_sim_jobs"
    /\ frame.value > 0
    /\ Len(job_results) > 1
    /\ NormSimDirs \subseteq DOMAIN cfgFile


(***************************************************************************)
(* SpecAnyEngine: passes of utils/exec.py and utils/runner.py over a job   *)
(* directory in which an engine invocation may leave anything: at any      *)
(* moment of run_sim the run data of the directory may become any of       *)
(* AnyRuns (every run alike), whatever the invocation was meant to do.    *)
(***************************************************************************)
AnyRun ==
    { NoRun,
      [NoRun EXCEPT !.dir = TRUE, !.ckpt = TRUE],
      [NoRun EXCEPT !.dir = TRUE, !.ckpt = TRUE, !.shards = MaxFiles, !.ana = "fresh"] }

AnyRuns == { [r \in RunIdx |-> x] : x \in AnyRun }

AnyOpts ==
    [n_runs : 0..MaxRuns, n_files : {0, MaxFiles},
     clean : IF variant = "manager" THEN BOOLEAN ELSE {FALSE},
     analyze : IF variant = "manager" THEN BOOLEAN ELSE {FALSE}]

StartAnyPass ==
    /\ pc[1] = "idle"
    /\ \E opt \in AnyOpts : JobStart(1, "symmetric", DefaultConfig, opt)

EngineLeaves ==
    /\ InRunSim(1)
    /\ \E rs \in AnyRuns : runs' = Put(runs, SimDir(1), rs)
    /\ UNCHANGED <<variant, cfgFile, lock, pc, job, site, passVars, stop, outcome,
                   file0, aggVars>>

NextAnyEngine == StartAnyPass \/ UtilsPassStep \/ Signal \/ EngineLeaves

SpecAnyEngine ==
    InitUtils /\ [][NextAnyEngine]_vars /\ WF_vars(UtilsPassStep)

\* the invocations of the pass so far are within what run_sim counted
WithinCounted(p) ==
    /\ cnt[p].clean <= (IF WantsClean(p) THEN 1 ELSE 0)
    /\ cnt[p].create <= Max0(Opt(p).n_runs - cnt[p].seen_runs)
    /\ \A r \in RunIdx :
         cnt[p].resume[r] <=
            (IF r < Opt(p).n_runs THEN Max0(Opt(p).n_files - cnt[p].seen_files[r])
             ELSE 0)
    /\ cnt[p].analyze <= 1

\* C29: whatever the engine leaves on disk, a pass spawns at most
\* max(0, n_runs - runs counted by run_sim) create invocations, for every run
\* at most max(0, n_files - shards counted for the run) resume invocations,
\* one analyze and, where requested, one clean; and once started the pass
\* ends, run_sim returning or raising.
C29_PassTerminates ==
    /\ [](WithinCounted(1))
    /\ (pc[1] # "idle") ~> (pc[1] = "done")

\* a pass has ended after it created and resumed although the directory no
\* longer holds what it counted
C29_Witness ==
    /\ pc[1] = "done"
    /\ cnt[1].returned
    /\ cnt[1].create = Max0(Opt(1).n_runs - cnt[1].seen_runs)
    /\ cnt[1].create > 0
    /\ cnt[1].resume[0] = MaxFiles
    /\ NumRuns(RunsOf(SimDir(1))) = 0


\* the configuration of a job of the list, by value
JobConfig(i) ==
    LET c == heap[frame.sim_jobs[i].config]
    IN [prob_mut |-> heap[c.model].prob_mut, n_agents |-> heap[c.init].n_agents,
        strat_phe |-> heap[c.init].strat_phe]

\* C30: the jobs create_sim_jobs returns have pairwise distinct
\* configurations, so no two of them resolve to the same job directory.
C30_JobsDistinct ==
    frame.pc = "returned" =>
        \A i, j \in DOMAIN frame.sim_jobs : i # j => JobConfig(i) # JobConfig(j)

=============================================================================
